---- MODULE Spec2Model ----
(***************************************************************************)
(* The request lifecycle of the Signal Sciences golang module:            *)
(* NewModule, Module.ServeHTTP with its background Update/Post goroutine  *)
(* and its finalizer goroutine, the response recorder and the module      *)
(* configuration.                                                         *)
(***************************************************************************)
EXTENDS Integers, Sequences, FiniteSets, TLC

(***************************************************************************)
(* Bounds of the model                                                    *)
(***************************************************************************)
\* writer operations (WriteHeader / Write) the downstream handler performs
MaxHandlerOps == 2
\* entries in the RequestHeaders list of a PreRequest reply
MaxAgentHdrs == 1

\* the transactions in flight
Reqs == {"r1"}

(***************************************************************************)
(* net/http headers, as the module uses them                              *)
(***************************************************************************)
HeaderNames ==
  {"X-Sigsci-Redirect", "X-Sigsci-Tags", "X-Sigsci-Requestid",
   "X-Sigsci-Agentresponse", "X-Custom", "Content-Type", "Location",
   "X-Content-Type-Options"}

\* http.CanonicalHeaderKey on the names the model uses
CanonicalHeaderKey(k) ==
  CASE k = "x-sigsci-redirect" -> "X-Sigsci-Redirect"
    [] k = "X-SigSci-Tags" -> "X-Sigsci-Tags"
    [] k = "x-sigsci-requestid" -> "X-Sigsci-Requestid"
    [] k = "x-custom" -> "X-Custom"
    [] k = "content-type" -> "Content-Type"
    [] OTHER -> k

\* strings.HasPrefix(name, "X-Sigsci-") on canonical names
HasSigsciPrefix(k) ==
  k \in {"X-Sigsci-Redirect", "X-Sigsci-Tags", "X-Sigsci-Requestid",
         "X-Sigsci-Agentresponse"}

EmptyHeader == [k \in HeaderNames |-> <<>>]

HeaderGet(h, k) ==
  LET v == h[CanonicalHeaderKey(k)] IN IF v = <<>> THEN "" ELSE v[1]
\* mutant: Set appends like Add
HeaderSet_Appends(h, k, v) == [h EXCEPT ![CanonicalHeaderKey(k)] = Append(@, v)]

HeaderSet(h, k, v) == [h EXCEPT ![CanonicalHeaderKey(k)] = <<v>>]
HeaderAdd(h, k, v) == [h EXCEPT ![CanonicalHeaderKey(k)] = Append(@, v)]
HeaderDel(h, k) == [h EXCEPT ![CanonicalHeaderKey(k)] = <<>>]

\* strconv.Itoa for the non-negative codes the agent returns
DigitStr(d) ==
  CASE d = 0 -> "0" [] d = 1 -> "1" [] d = 2 -> "2" [] d = 3 -> "3"
    [] d = 4 -> "4" [] d = 5 -> "5" [] d = 6 -> "6" [] d = 7 -> "7"
    [] d = 8 -> "8" [] OTHER -> "9"

RECURSIVE Itoa(_)
Itoa(n) == IF n < 10 THEN DigitStr(n) ELSE Itoa(n \div 10) \o DigitStr(n % 10)

(***************************************************************************)
(* Configuration                                                          *)
(***************************************************************************)
\* mutant: every 2xx code allows
IsAllowCode_Any2xx(code) == code >= 200 /\ code < 300

\* ModuleConfig.IsAllowCode
IsAllowCode(code) == code = 200

\* mutant: the block range starts below 300
IsBlockCode_From201(code) == code > 200 /\ code <= 599

\* mutant: the upper end of the block range is excluded
IsBlockCode_Below599(code) == code >= 300 /\ code < 599

\* ModuleConfig.IsBlockCode
IsBlockCode(code) == code >= 300 /\ code <= 599

\* the values of the options AnomalySize and AnomalyDuration (in
\* milliseconds) NewModule is called with in the model
AnomalySizeOpt == 25
AnomalyMillisOpt == 2

DefaultMaxContentLength == 100000

\* DefaultAnomalySize = int64(512 * 1024)
DefaultAnomalySize == 524288

\* DefaultAnomalyDuration = 1 * time.Second, in milliseconds
DefaultAnomalyMillis == 1000

\* time.Since(start) at the post decision, in milliseconds: below, at and
\* above the anomaly threshold
ElapsedMillis == {AnomalyMillisOpt - 1, AnomalyMillisOpt, AnomalyMillisOpt + 1}

\* the fields of a ModuleConfig
\* inspector: "nil" or "custom"
\* inspInit / inspFini: whether the hook is configured (non-nil)
\* expectedContentTypes: the custom content types IsExpectedContentType
\* accepts; rawHeaderExtractor: "none" (nil), or what the configured
\* function returns: "nil" or "list"
\* the ModuleConfig NewModuleConfig starts from
DefaultConfig ==
  [inspector |-> "nil", inspInit |-> FALSE, inspFini |-> FALSE,
   rpcNetwork |-> "unix", rpcAddress |-> "/var/run/sigsci.sock",
   anomalySize |-> DefaultAnomalySize,
   anomalyDuration |-> DefaultAnomalyMillis,
   allowUnknownContentLength |-> FALSE,
   maxContentLength |-> DefaultMaxContentLength,
   extendContentTypes |-> FALSE,
   expectedContentTypes |-> {},
   rawHeaderExtractor |-> "none"]

(***************************************************************************)
(* Inbound requests                                                       *)
(***************************************************************************)
\* Body.reader: "nil" (no body), "orig" (the connection's reader) or
\* "buffer" (the in-memory reader the module rebinds the body to)
MkRequest(method, path, ctype, clen, data, redir) ==
  [Method |-> method,
   Host |-> "example.com",
   Path |-> path,
   ContentLength |-> clen,
   Header |->
     [k \in HeaderNames |->
        CASE k = "Content-Type" /\ ctype # "" -> <<ctype>>
          [] k = "X-Sigsci-Redirect" /\ redir # "" -> <<redir>>
          [] OTHER -> <<>>],
   Body |-> [reader |-> IF data = "" THEN "nil" ELSE "orig",
             data |-> data, closed |-> FALSE]]

\* a request on which the client supplied header k with value v
WithClientHeader(rq, k, v) == [rq EXCEPT !.Header = HeaderAdd(@, k, v)]

\* the X-Sigsci- headers a client can forge
ForgedHeaders(rq) ==
  WithClientHeader(
    WithClientHeader(
      WithClientHeader(rq, "X-Sigsci-Agentresponse", "200"),
      "X-Sigsci-Requestid", "forged"),
    "X-Sigsci-Tags", "SQLI")

Requests ==
  {MkRequest("GET", "/", "", 0, "", ""),
   ForgedHeaders(MkRequest("OPTIONS", "/a/b", "", 0, "", "/evil")),
   MkRequest("CONNECT", "/", "", 0, "", ""),
   MkRequest("POST", "/", "application/json", 2, "{}", "")}

NoRequest == MkRequest("", "", "", 0, "", "")

\* properties of the content types of the model, as the string tests of
\* inspectableContentType see them on the lower-cased value
ContentTypeProps(s) ==
  CASE s = "application/json" -> {"json"}
    [] s = "Application/JSON" -> {"json"}
    [] s = "text/javascript" -> {"javascript"}
    [] s = "application/x-www-form-urlencoded" -> {"form"}
    [] s = "multipart/form-data; boundary=b" -> {"multipart"}
    [] s = "text/xml;charset=UTF-8" -> {"textxml"}
    [] s = "application/xml" -> {"appxml"}
    [] s = "image/svg+xml" -> {"plusxml"}
    [] s = "application/grpc" -> {"grpc"}
    [] s = "application/graphql" -> {"graphql"}
    [] s = "text/plain, text/html" -> {"comma"}
    [] OTHER -> {}

inspectableContentType(s) ==
  CASE "form" \in ContentTypeProps(s) -> TRUE
    [] "multipart" \in ContentTypeProps(s) -> TRUE
    [] {"json", "javascript"} \cap ContentTypeProps(s) # {} -> TRUE
    [] {"textxml", "appxml", "plusxml"} \cap ContentTypeProps(s) # {} -> TRUE
    [] "grpc" \in ContentTypeProps(s) -> TRUE
    [] "graphql" \in ContentTypeProps(s) -> TRUE
    [] s = "" -> TRUE
    [] OTHER -> FALSE

\* ModuleConfig.IsExpectedContentType
IsExpectedContentType(cfg, s) == s \in cfg.expectedContentTypes

\* len(strings.SplitN(s, ",", 2)) > 1
HasComma(s) == "comma" \in ContentTypeProps(s)

\* mutant: the content length is not held against the maximum
shouldReadBody_NoMaximum(rq, cfg) ==
  IF rq.Body.reader = "nil" THEN FALSE
  ELSE IF /\ ~(cfg.allowUnknownContentLength /\ rq.ContentLength = -1)
          /\ rq.ContentLength <= 0
       THEN FALSE
  ELSE IF cfg.extendContentTypes THEN TRUE
  ELSE IF inspectableContentType(HeaderGet(rq.Header, "Content-Type")) THEN TRUE
  ELSE IF IsExpectedContentType(cfg, HeaderGet(rq.Header, "Content-Type"))
       THEN TRUE
  ELSE IF Len(rq.Header["Content-Type"]) > 1 THEN TRUE
  ELSE IF HasComma(HeaderGet(rq.Header, "Content-Type")) THEN TRUE
  ELSE FALSE

\* mutant: a content length equal to the maximum is too long
shouldReadBody_MaxExclusive(rq, cfg) ==
  IF rq.Body.reader = "nil" THEN FALSE
  ELSE IF /\ ~(cfg.allowUnknownContentLength /\ rq.ContentLength = -1)
          /\ (rq.ContentLength <= 0 \/ rq.ContentLength >= cfg.maxContentLength)
       THEN FALSE
  ELSE IF cfg.extendContentTypes THEN TRUE
  ELSE IF inspectableContentType(HeaderGet(rq.Header, "Content-Type")) THEN TRUE
  ELSE IF IsExpectedContentType(cfg, HeaderGet(rq.Header, "Content-Type"))
       THEN TRUE
  ELSE IF Len(rq.Header["Content-Type"]) > 1 THEN TRUE
  ELSE IF HasComma(HeaderGet(rq.Header, "Content-Type")) THEN TRUE
  ELSE FALSE

\* shouldReadBody(req, m)
shouldReadBody(rq, cfg) ==
  IF rq.Body.reader = "nil" THEN FALSE
  ELSE IF /\ ~(cfg.allowUnknownContentLength /\ rq.ContentLength = -1)
          /\ (rq.ContentLength <= 0 \/ rq.ContentLength > cfg.maxContentLength)
       THEN FALSE
  ELSE IF cfg.extendContentTypes THEN TRUE
  ELSE IF inspectableContentType(HeaderGet(rq.Header, "Content-Type")) THEN TRUE
  ELSE IF IsExpectedContentType(cfg, HeaderGet(rq.Header, "Content-Type"))
       THEN TRUE
  ELSE IF Len(rq.Header["Content-Type"]) > 1 THEN TRUE
  ELSE IF HasComma(HeaderGet(rq.Header, "Content-Type")) THEN TRUE
  ELSE FALSE

(***************************************************************************)
(* The base http.ResponseWriter and the response recorder                 *)
(***************************************************************************)
\* status = 0: the response header is not yet written; sent: the headers
\* that went out with the status line
\* caps: the optional interfaces the writer implements; flushed: whether
\* its Flush was called
Capabilities == {"Flusher", "Hijacker", "ReaderFrom", "CloseNotifier"}

BaseWriter(caps, hdr) ==
  [status |-> 0, size |-> 0, hdr |-> hdr, sent |-> EmptyHeader,
   caps |-> caps, flushed |-> FALSE]

\* the writer the server passes to ServeHTTP
NewBase == BaseWriter(Capabilities, EmptyHeader)

\* http.ResponseWriter.WriteHeader: only the first call commits
BaseWriteHeader(b, s) ==
  IF b.status # 0 THEN b ELSE [b EXCEPT !.status = s, !.sent = b.hdr]

\* http.ResponseWriter.Write: an implicit WriteHeader(200) comes first
BaseWrite(b, n) == [BaseWriteHeader(b, 200) EXCEPT !.size = @ + n]

\* mutant: the flusher variant is returned for every base
FlusherVariant_Always(base) == TRUE

\* whether newResponseWriter returns a responseRecorderFlusher
FlusherVariant(base) == "Flusher" \in base.caps

\* newResponseWriter(base, actions): the recorder starts with code 200
newResponseWriter(base, actions) ==
  [code |-> 200, size |-> 0, actions |-> actions,
   flusher |-> FlusherVariant(base)]

\* NewResponseWriter(base) passes no actions
NewResponseWriter(base) == newResponseWriter(base, <<>>)

\* mutant: one writer type with every optional method
Satisfies_Every(rec, cap) == TRUE

\* whether the writer newResponseWriter returned has the method set of an
\* optional interface: *responseRecorder has ReadFrom, Hijack and
\* CloseNotify, and only *responseRecorderFlusher has Flush as well
Satisfies(rec, cap) ==
  CASE cap = "Flusher" -> rec.flusher
    [] cap \in {"ReaderFrom", "Hijacker", "CloseNotifier"} -> TRUE
    [] OTHER -> FALSE

NoRecorder == [code |-> 0, size |-> 0, actions |-> <<>>, flusher |-> FALSE]

\* schema.Action
Action(code, args) == [Code |-> code, Args |-> args]

\* mutant: SetNEHdr sets only a name that has no value at all
ApplyAction_SetNEOnlyAbsent(hdr, a) ==
  CASE a.Code = "AddHdr" -> HeaderAdd(hdr, a.Args[1], a.Args[2])
    [] a.Code = "SetHdr" -> HeaderSet(hdr, a.Args[1], a.Args[2])
    [] a.Code = "SetNEHdr" ->
         IF hdr[CanonicalHeaderKey(a.Args[1])] = <<>>
         THEN HeaderSet(hdr, a.Args[1], a.Args[2]) ELSE hdr
    [] a.Code = "DelHdr" -> HeaderDel(hdr, a.Args[1])
    [] OTHER -> hdr

\* one action of responseRecorder.mergeHeader
ApplyAction(hdr, a) ==
  CASE a.Code = "AddHdr" -> HeaderAdd(hdr, a.Args[1], a.Args[2])
    [] a.Code = "SetHdr" -> HeaderSet(hdr, a.Args[1], a.Args[2])
    [] a.Code = "SetNEHdr" ->
         IF Len(HeaderGet(hdr, a.Args[1])) = 0
         THEN HeaderSet(hdr, a.Args[1], a.Args[2]) ELSE hdr
    [] a.Code = "DelHdr" -> HeaderDel(hdr, a.Args[1])
    [] OTHER -> hdr

RECURSIVE ApplyActions(_, _)
ApplyActions(hdr, as) ==
  IF as = <<>> THEN hdr ELSE ApplyActions(ApplyAction(hdr, Head(as)), Tail(as))

\* a recorder and its base, as one value the recorder methods transform
RW(rec, base) == [rec |-> rec, base |-> base]

\* mutant: the actions stay pending after they were applied
mergeHeader_KeepsActions(x) ==
  RW(x.rec, [x.base EXCEPT !.hdr = ApplyActions(@, x.rec.actions)])

\* whether one action of mergeHeader indexes a.Args past its end, which is
\* a run-time panic: Args[0] and Args[1] are read with no length check, and
\* SetNEHdr reads Args[1] only when the header has no first value
ActionPanics(hdr, a) ==
  CASE a.Code \in {"AddHdr", "SetHdr"} -> Len(a.Args) < 2
    [] a.Code = "SetNEHdr" ->
         \/ Len(a.Args) < 1
         \/ Len(HeaderGet(hdr, a.Args[1])) = 0 /\ Len(a.Args) < 2
    [] a.Code = "DelHdr" -> Len(a.Args) < 1
    [] OTHER -> FALSE

\* the loop of mergeHeader: the header map is changed in place, action by
\* action, until the list ends or an action panics
RECURSIVE MergeLoop(_, _)
MergeLoop(hdr, as) ==
  IF as = <<>> THEN [hdr |-> hdr, panic |-> FALSE]
  ELSE IF ActionPanics(hdr, Head(as)) THEN [hdr |-> hdr, panic |-> TRUE]
  ELSE MergeLoop(ApplyAction(hdr, Head(as)), Tail(as))

\* whether the call of mergeHeader a WriteHeader or Write starts with panics
MergePanics(x) ==
  x.rec.actions # <<>> /\ MergeLoop(x.base.hdr, x.rec.actions).panic

\* responseRecorder.mergeHeader (called when actions are pending): a panic
\* leaves the loop before the list is cleared
mergeHeader(x) ==
  LET l == MergeLoop(x.base.hdr, x.rec.actions)
  IN RW([x.rec EXCEPT !.actions = IF l.panic THEN @ ELSE <<>>],
        [x.base EXCEPT !.hdr = l.hdr])

\* responseRecorder.WriteHeader: a panic of mergeHeader unwinds it before
\* the code is recorded and the base is called
RecWriteHeader(x, s) ==
  LET y == IF x.rec.actions # <<>> THEN mergeHeader(x) ELSE x
  IN IF MergePanics(x) THEN y
     ELSE RW([y.rec EXCEPT !.code = s], BaseWriteHeader(y.base, s))

\* responseRecorder.Write: a panic of mergeHeader unwinds it before the
\* base is called
RecWrite(x, n) ==
  LET y == IF x.rec.actions # <<>> THEN mergeHeader(x) ELSE x
  IN IF MergePanics(x) THEN y
     ELSE RW([y.rec EXCEPT !.size = @ + n], BaseWrite(y.base, n))

\* responseRecorder.Header() is the base writer's header map
RecSetHeader(x, k, v) == RW(x.rec, [x.base EXCEPT !.hdr = HeaderSet(@, k, v)])

\* http.StatusText on the codes of the model
StatusText(code) ==
  CASE code = 200 -> "OK"
    [] code = 300 -> "Multiple Choices"
    [] code = 301 -> "Moved Permanently"
    [] code = 400 -> "Bad Request"
    [] code = 406 -> "Not Acceptable"
    [] code = 500 -> "Internal Server Error"
    [] OTHER -> ""

\* http.Error(rw, fmt.Sprintf("%d %s\n", status, http.StatusText(status)), status):
\* the body is the message and the newline Fprintln adds
HttpError(x, status) ==
  LET h1 == RecSetHeader(x, "Content-Type", "text/plain; charset=utf-8")
      h2 == RecSetHeader(h1, "X-Content-Type-Options", "nosniff")
      h3 == RecWriteHeader(h2, status)
  IN RecWrite(h3, Len(Itoa(status)) + 1 + Len(StatusText(status)) + 1 + 1)

\* path.Clean on the redirect targets of the model
CleanPath(p) == IF p = "/a/../login" THEN "/login" ELSE p

\* the directory of the request path (path.Split)
PathDir(p) == IF p = "/a/b" THEN "/a/" ELSE "/"

\* http.Redirect resolves a target without scheme and host against the
\* request path and cleans it; a target with a scheme is left as it is
RedirectTarget(url, path) ==
  IF url \in {"https://example.net/login"} THEN url
  ELSE IF url \in {"/login", "/a/../login", "/evil"} THEN CleanPath(url)
  ELSE CleanPath(PathDir(path) \o url)

\* http.Redirect(rw, req, url, status)
HttpRedirect(x, rq, url, status) ==
  LET loc == RedirectTarget(url, rq.Path)
      hadCT == x.base.hdr["Content-Type"] # <<>>
      h1 == RecSetHeader(x, "Location", loc)
      h2 == IF ~hadCT /\ rq.Method \in {"GET", "HEAD"}
            THEN RecSetHeader(h1, "Content-Type", "text/html; charset=utf-8")
            ELSE h1
      h3 == RecWriteHeader(h2, status)
  IN IF ~hadCT /\ rq.Method = "GET"
     THEN RecWrite(h3, 9 + Len(loc) + 2 + Len(StatusText(status)) + 6 + 1)
     ELSE h3

(***************************************************************************)
(* The inspector's replies                                                *)
(***************************************************************************)
Verdicts == {200, 299, 300, 399, 400, 406, 599, 600}

RequestIDs == {"", "0123456789abcdef01234567"}

AgentHeaderPairs ==
  {<<"X-Sigsci-Redirect", "/login">>, <<"x-sigsci-redirect", "login">>,
   <<"X-Sigsci-Redirect", "">>, <<"X-SigSci-Tags", "XSS">>, <<"X-Custom", "v">>,
   <<"X-Sigsci-Agentresponse", "200">>, <<"x-sigsci-requestid", "fromlist">>}

RECURSIVE SeqsUpTo(_, _)
SeqsUpTo(S, n) ==
  IF n = 0 THEN {<<>>}
  ELSE LET shorter == SeqsUpTo(S, n - 1)
       IN shorter \cup {Append(q, e) : q \in shorter, e \in S}

AgentHeaderLists == SeqsUpTo(AgentHeaderPairs, MaxAgentHdrs)

\* the block verdicts for which replies with every request header list are
\* drawn (the list decides between redirect and block)
HeaderVerdicts == {300, 399, 400}

\* allow replies with request headers: tags with a request id, as the test
\* inspector returns them, and a custom header without request id
AllowRepliesWithHeaders ==
  {[err |-> FALSE, WAFResponse |-> 200,
    RequestID |-> "0123456789abcdef01234567",
    RequestHeaders |-> << <<"X-SigSci-Tags", "XSS">> >>, RespActions |-> <<>>],
   [err |-> FALSE, WAFResponse |-> 200, RequestID |-> "",
    RequestHeaders |-> << <<"X-Custom", "v">> >>, RespActions |-> <<>>]}

\* replies that carry response-header actions, one allowing and one blocking
RepliesWithActions ==
  {[err |-> FALSE, WAFResponse |-> v, RequestID |-> "", RequestHeaders |-> <<>>,
    RespActions |-> <<Action("AddHdr", <<"x-custom", "a">>)>>] : v \in {200, 406}}

\* RPCMsgOut of a PreRequest call, with the error the call returned
PreRequestReplies ==
  [err : {FALSE}, WAFResponse : Verdicts, RequestID : RequestIDs,
   RequestHeaders : {<<>>}, RespActions : {<<>>}]
  \cup
  [err : {FALSE}, WAFResponse : HeaderVerdicts, RequestID : RequestIDs,
   RequestHeaders : AgentHeaderLists, RespActions : {<<>>}]
  \cup AllowRepliesWithHeaders
  \cup RepliesWithActions
  \cup
  {[err |-> TRUE, WAFResponse |-> 0, RequestID |-> "", RequestHeaders |-> <<>>,
    RespActions |-> <<>>]}

NoReply ==
  [err |-> FALSE, WAFResponse |-> 0, RequestID |-> "", RequestHeaders |-> <<>>,
   RespActions |-> <<>>]

\* what the downstream handler does with its writer
HandlerStatuses == {299, 300}
HandlerWriteSizes == {10, 15}

(***************************************************************************)
(* State                                                                  *)
(***************************************************************************)
VARIABLES
  modState,   \* "none" until NewModule has returned the module, then "ready"
  config,     \* the module's ModuleConfig
  initCalls,  \* calls of Inspector.ModuleInit so far
  module,     \* the inspector and the hooks in the Module struct
  ctor,       \* the call of NewModule: its options and what it returned
  rpc,        \* the RPCInspector: its hooks, its call and its connections
  pc,         \* position of the foreground task (ServeHTTP) of each request
  req0,       \* the request as it entered ServeHTTP
  req,        \* the request, as the module and the handler see it
  w,          \* the base http.ResponseWriter
  rw,         \* the response recorder
  hw,         \* the writer the downstream handler was invoked with
  ops,        \* writer operations the handler has performed
  out,        \* the PreRequest reply
  finiwg,     \* the WaitGroup counter of the request
  deferFini,  \* whether the finalizer is deferred
  bg,         \* the background goroutine of the follow-up RPC
  msg,        \* the follow-up message (RPCMsgIn2 or RPCMsgIn)
  dur,        \* the elapsed time measured after the response (-1: not yet)
  fin,        \* the finalizer goroutine
  hist,       \* the calls of the transaction, in order
  rw0,        \* the recorder and its base as newResponseWriter made them
  inspin,     \* the RPCMsgIn of the PreRequest call
  handlerBody, \* the bytes the handler read from the request body
  calls,      \* the handler's calls on the recorder, where they are logged
  gin,        \* a gin.Context serving a request with the module installed
  codec       \* the client codec reading one response header

vars ==
  <<modState, config, initCalls, module, ctor, rpc, pc, req0, req, w, rw, hw, ops, out,
    finiwg, deferFini, bg, msg, dur, fin, hist, rw0, inspin, handlerBody,
    calls, gin, codec>>

modvars == <<modState, config, initCalls, module, ctor, rpc>>

iovars == <<inspin, handlerBody, calls, gin, codec>>

\* no gin request is being served
NoGin ==
  [pc |-> "idle", handlers |-> 0, index |-> -1, depth |-> 0, gate |-> "",
   method |-> "GET", code |-> 0, redirect |-> FALSE, reqid |-> "", wstatus |-> 200,
   wsize |-> -1, ran |-> <<>>, resp |-> <<>>, followup |-> "none"]

\* an error value: nil, io.EOF, a net.Error whose Timeout() is true, a
\* decoding error of msgp, or an error made by fmt.Errorf
Err(kind, text) == [kind |-> kind, text |-> text]
NilErr == Err("nil", "")

\* no response header is being read
NoCodec == [pc |-> "idle", wire |-> <<>>, seq |-> 0, err |-> NilErr]

NoMsg ==
  [RequestID |-> "", ResponseCode |-> -1, ResponseSize |-> -1,
   ResponseMillis |-> -1, WAFResponse |-> 0]

\* no PreRequest message was built yet
NoMsgIn ==
  [Method |-> "", PostBody |-> "", ResponseCode |-> 0, ResponseMillis |-> 0,
   ResponseSize |-> 0, HeadersIn |-> <<>>]

\* no background goroutine was started
\* err: whether the follow-up RPC returned an error
NoBackground == [kind |-> "none", pc |-> "none", err |-> FALSE]

\* the handler has not read the request body
NotRead == [read |-> FALSE, data |-> ""]

\* the fields of Module that NewModule copies from the configuration
ModuleOf(c) ==
  [inspector |-> IF c.inspector = "nil" THEN "rpc" ELSE c.inspector,
   inspInit |-> c.inspInit, inspFini |-> c.inspFini]

\* no Module was made yet
NoModule == [inspector |-> "none", inspInit |-> FALSE, inspFini |-> FALSE]

\* NewModule was not called yet
NoCtor == [options |-> <<>>, err |-> "", initErr |-> FALSE, later |-> <<>>]

\* an RPCInspector without client hooks, before its first call
\* init / fini: whether InitRPCClientFunc / FiniRPCClientFunc is set
\* conns: the connections opened so far, each "open" or "closed"
\* cur: the connection of the call (0: none); opened: connections the
\* call opened; reused: the call's connection is one of an earlier call
\* elapsed: time since the call started; deadline: the deadline set on the
\* connection, on the same clock (-1: none)
NoRPC ==
  [init |-> FALSE, fini |-> FALSE, pc |-> "idle", method |-> "",
   conns |-> <<>>, cur |-> 0, opened |-> 0, reused |-> FALSE,
   elapsed |-> 0, deadline |-> -1, err |-> "", calls |-> 0]

Init ==
  /\ modState = "none"
  /\ config = DefaultConfig
  /\ initCalls = 0
  /\ module = NoModule
  /\ ctor = NoCtor
  /\ rpc = NoRPC
  /\ pc = [r \in Reqs |-> "idle"]
  /\ req0 = [r \in Reqs |-> NoRequest]
  /\ req = [r \in Reqs |-> NoRequest]
  /\ w = [r \in Reqs |-> NewBase]
  /\ rw = [r \in Reqs |-> NoRecorder]
  /\ hw = [r \in Reqs |-> "none"]
  /\ ops = [r \in Reqs |-> 0]
  /\ out = [r \in Reqs |-> NoReply]
  /\ finiwg = [r \in Reqs |-> 0]
  /\ deferFini = [r \in Reqs |-> FALSE]
  /\ bg = [r \in Reqs |-> NoBackground]
  /\ msg = [r \in Reqs |-> NoMsg]
  /\ dur = [r \in Reqs |-> -1]
  /\ fin = [r \in Reqs |-> "none"]
  /\ hist = [r \in Reqs |-> <<>>]
  /\ rw0 = [r \in Reqs |-> RW(NoRecorder, NewBase)]
  /\ inspin = [r \in Reqs |-> NoMsgIn]
  /\ handlerBody = [r \in Reqs |-> NotRead]
  /\ calls = [r \in Reqs |-> <<>>]
  /\ gin = NoGin
  /\ codec = NoCodec

(***************************************************************************)
(* NewModule                                                              *)
(***************************************************************************)
\* mutant: NewModule does not call ModuleInit
ModuleInitCalls_None(n) == n

\* the call of ModuleInit in NewModule
ModuleInitCalls(n) == n + 1

\* a ModuleConfigOption: the option function and its arguments (size is
\* the number the option was given: bytes, or milliseconds; cfg is the
\* ModuleConfig FromModuleConfig was given)
Option(name, network, address, size, on, insp, init, fini) ==
  [opt |-> name, network |-> network, address |-> address, size |-> size,
   on |-> on, insp |-> insp, init |-> init, fini |-> fini,
   cfg |-> DefaultConfig]

\* the nil ModuleConfigOption
NilOption == Option("nil", "", "", 0, FALSE, "nil", FALSE, FALSE)

Socket(network, address) ==
  Option("Socket", network, address, 0, FALSE, "nil", FALSE, FALSE)

MaxContentLength(size) ==
  Option("MaxContentLength", "", "", size, FALSE, "nil", FALSE, FALSE)

AllowUnknownContentLength(allow) ==
  Option("AllowUnknownContentLength", "", "", 0, allow, "nil", FALSE, FALSE)

CustomInspector(insp, init, fini) ==
  Option("CustomInspector", "", "", 0, FALSE, insp, init, fini)

AnomalySize(size) ==
  Option("AnomalySize", "", "", size, FALSE, "nil", FALSE, FALSE)

\* AnomalyDuration(dur), with dur in milliseconds
AnomalyDuration(millis) ==
  Option("AnomalyDuration", "", "", millis, FALSE, "nil", FALSE, FALSE)

FromModuleConfig(mcfg) ==
  [Option("FromModuleConfig", "", "", 0, FALSE, "nil", FALSE, FALSE)
     EXCEPT !.cfg = mcfg]

\* AltResponseCodes is deprecated: whatever the codes, it returns nil
AltResponseCodes(codes) == NilOption

\* filepath.IsAbs, on the addresses of the model
IsAbs(address) == address \in {"/var/run/sigsci.sock", "/tmp/agent.sock"}

\* the error of net.SplitHostPort, on the addresses of the model
SplitHostPortErr(address) ==
  IF address = "0.0.0.0:1234" THEN ""
  ELSE IF address = "::1:80"
       THEN "address " \o address \o ": too many colons in address"
  ELSE "address " \o address \o ": missing port in address"

\* mutant: the values are assigned before they are validated
SocketOption_AssignFirst(c, network, address) ==
  [c |-> [c EXCEPT !.rpcNetwork = network, !.rpcAddress = address],
   err |->
     IF network = "unix"
     THEN IF IsAbs(address) THEN ""
          ELSE "address must be an absolute path for network=\"unix\""
     ELSE IF network = "tcp"
     THEN IF SplitHostPortErr(address) = "" THEN ""
          ELSE "address must be in \"address:port\" form for network=\"tcp\": "
               \o SplitHostPortErr(address)
     ELSE "network must be \"tcp\" or \"unix\""]

\* the function Socket(network, address) returns, applied to c
SocketOption(c, network, address) ==
  IF network = "unix" /\ ~IsAbs(address)
  THEN [c |-> c,
        err |-> "address must be an absolute path for network=\"unix\""]
  ELSE IF network = "tcp" /\ SplitHostPortErr(address) # ""
  THEN [c |-> c,
        err |-> "address must be in \"address:port\" form for network=\"tcp\": "
                \o SplitHostPortErr(address)]
  ELSE IF network \notin {"unix", "tcp"}
  THEN [c |-> c, err |-> "network must be \"tcp\" or \"unix\""]
  ELSE [c |-> [c EXCEPT !.rpcNetwork = network, !.rpcAddress = address],
        err |-> ""]

\* opt(c): the configuration after the option, and the option's error
ApplyOption(c, o) ==
  IF o.opt = "Socket" THEN SocketOption(c, o.network, o.address)
  ELSE IF o.opt = "MaxContentLength"
  THEN [c |-> [c EXCEPT !.maxContentLength = o.size], err |-> ""]
  ELSE IF o.opt = "AllowUnknownContentLength"
  THEN [c |-> [c EXCEPT !.allowUnknownContentLength = o.on], err |-> ""]
  ELSE IF o.opt = "AnomalySize"
  THEN [c |-> [c EXCEPT !.anomalySize = o.size], err |-> ""]
  ELSE IF o.opt = "AnomalyDuration"
  THEN [c |-> [c EXCEPT !.anomalyDuration = o.size], err |-> ""]
  ELSE IF o.opt = "FromModuleConfig"
  THEN [c |-> o.cfg, err |-> ""]
  ELSE IF o.opt = "CustomInspector"
  THEN [c |-> [c EXCEPT !.inspector = o.insp, !.inspInit = o.init,
                        !.inspFini = o.fini],
        err |-> ""]
  \* the other options write fields that no operation here reads
  ELSE [c |-> c, err |-> ""]

RECURSIVE SetOptions_PastError(_, _)
RECURSIVE SetOptions(_, _)
\* mutant: the options after a failed one are applied too
SetOptions_PastError(c, options) ==
  IF options = <<>> THEN [c |-> c, err |-> ""]
  ELSE IF Head(options) = NilOption
  THEN SetOptions_PastError(c, Tail(options))
  ELSE LET r == ApplyOption(c, Head(options))
           rest == SetOptions_PastError(r.c, Tail(options))
       IN  [c |-> rest.c, err |-> IF r.err # "" THEN r.err ELSE rest.err]

\* ModuleConfig.SetOptions: the options in order, nil options skipped, up
\* to the first error
SetOptions(c, options) ==
  IF options = <<>> THEN [c |-> c, err |-> ""]
  ELSE IF Head(options) = NilOption THEN SetOptions(c, Tail(options))
  ELSE LET r == ApplyOption(c, Head(options))
       IN  IF r.err # "" THEN r ELSE SetOptions(r.c, Tail(options))

\* NewModuleConfig: the options applied to the defaults; with an error the
\* configuration is not returned
NewModuleConfig(options) == SetOptions(DefaultConfig, options)

\* mutant: NewModule returns the error of ModuleInit
NewModuleErr_FromInit(initErr) == IF initErr THEN "moduleinit" ELSE ""

\* what NewModule returns as error once the configuration is built: the
\* error of ModuleInit is only logged
NewModuleErr(initErr) == ""

\* NewModule(h, options...): the configuration is built; with an error
\* nothing else happens and no module is returned (config then shows the
\* ModuleConfig that was abandoned); else the inspector and the hooks are
\* copied into the Module and ModuleInit is called once
NewModuleWith(lists) ==
  /\ modState = "none"
  /\ \E options \in lists, initErr \in BOOLEAN :
       LET r == NewModuleConfig(options) IN
         IF r.err # ""
         THEN /\ ~initErr
              /\ modState' = "failed"
              /\ config' = r.c
              /\ ctor' = [ctor EXCEPT !.options = options, !.err = r.err]
              /\ UNCHANGED <<module, initCalls>>
         ELSE /\ config' = r.c
              /\ module' = ModuleOf(r.c)
              /\ initCalls' = ModuleInitCalls(initCalls)
              /\ ctor' = [ctor EXCEPT !.options = options,
                                      !.err = NewModuleErr(initErr),
                                      !.initErr = initErr]
              /\ modState' = IF NewModuleErr(initErr) = "" THEN "ready"
                             ELSE "failed"
  /\ UNCHANGED <<rpc, pc, req0, req, w, rw, hw, ops, out, finiwg, deferFini,
                 bg, msg, dur, fin, hist, rw0, iovars>>

\* the anomaly thresholds the modules of the request lifecycle are built
\* with
ThresholdOptions ==
  <<AnomalySize(AnomalySizeOpt), AnomalyDuration(AnomalyMillisOpt)>>

\* the option lists of the request lifecycle: every combination of hooks
\* with the thresholds, and one list with an option that fails
ModuleOptionLists ==
  {<<CustomInspector("custom", init, fini)>> \o ThresholdOptions :
     init, fini \in BOOLEAN}
  \cup {<<Socket("udp", "localhost")>>}

\* the options of a module with both hooks and the thresholds
HookOptions == <<CustomInspector("custom", TRUE, TRUE)>> \o ThresholdOptions

NewModule == NewModuleWith(ModuleOptionLists)

(***************************************************************************)
(* Module.ServeHTTP: the foreground task                                  *)
(***************************************************************************)
Log(r, e) == [hist EXCEPT ![r] = Append(@, e)]

\* mutant: the result of the init hook is not acted on
InitGateBypass_Never(cfg, ok) == FALSE

\* the init gate: m.inspInit != nil && !m.inspInit(req)
InitGateBypass(cfg, ok) == cfg.inspInit /\ ~ok

\* the call of the init hook, when one is configured, and what it returned
InitEvent(cfg, ok) ==
  IF cfg.inspInit THEN <<IF ok THEN "InitTrue" ELSE "InitFalse">> ELSE <<>>

\* ServeHTTP is entered; the init hook decides on inspection; the
\* finalizer is deferred when one is configured
ServeHTTPBeginWith(r, requests) ==
  /\ modState = "ready"
  /\ pc[r] = "idle"
  /\ \E rq \in requests, ok \in BOOLEAN :
       /\ (~module.inspInit => ok)
       /\ req0' = [req0 EXCEPT ![r] = rq]
       /\ req' = [req EXCEPT ![r] = rq]
       /\ IF InitGateBypass(module, ok)
          THEN /\ pc' = [pc EXCEPT ![r] = "handler"]
               /\ hw' = [hw EXCEPT ![r] = "orig"]
               /\ hist' = [hist EXCEPT ![r] = @ \o InitEvent(module, ok) \o <<"Handler">>]
               /\ UNCHANGED deferFini
          ELSE /\ pc' = [pc EXCEPT ![r] = "pre"]
               /\ deferFini' = [deferFini EXCEPT ![r] = module.inspFini]
               /\ hist' = [hist EXCEPT ![r] = @ \o InitEvent(module, ok)]
               /\ UNCHANGED hw
  /\ UNCHANGED <<modvars, iovars, rw0, w, rw, ops, out, finiwg, bg, msg, dur, fin>>

ServeHTTPBegin(r) == ServeHTTPBeginWith(r, Requests)

\* mutant: the prefix is tested on the name as the agent wrote it
ApplyRequestHeader_RawPrefix(h, kv) ==
  IF HasSigsciPrefix(kv[1])
  THEN HeaderSet(h, kv[1], kv[2])
  ELSE HeaderAdd(h, kv[1], kv[2])

\* the request headers the module sets from one entry of RequestHeaders
ApplyRequestHeader(h, kv) ==
  IF HasSigsciPrefix(CanonicalHeaderKey(kv[1]))
  THEN HeaderSet(h, kv[1], kv[2])
  ELSE HeaderAdd(h, kv[1], kv[2])

RECURSIVE ApplyRequestHeaders(_, _)
ApplyRequestHeaders(h, kvs) ==
  IF kvs = <<>> THEN h
  ELSE ApplyRequestHeaders(ApplyRequestHeader(h, Head(kvs)), Tail(kvs))

\* mutant: without a request id the header is left as the client sent it
RequestidHeader_KeepsClientValue(h, id) ==
  IF id # "" THEN HeaderSet(h, "X-Sigsci-Requestid", id) ELSE h

\* X-Sigsci-Requestid is set to the id the agent issued, or deleted
RequestidHeader(h, id) ==
  IF id # ""
  THEN HeaderSet(h, "X-Sigsci-Requestid", id)
  ELSE HeaderDel(h, "X-Sigsci-Requestid")

\* mutant: only X-Sigsci-Tags is cleared
ClearAgentHeaders_TagsOnly(h) == HeaderDel(h, "X-Sigsci-Tags")

\* X-Sigsci-Tags and X-Sigsci-Redirect are deleted before the agent's
\* request headers are merged
ClearAgentHeaders(h) ==
  HeaderDel(HeaderDel(h, "X-Sigsci-Tags"), "X-Sigsci-Redirect")

\* header propagation of inspectorPreRequest after a successful call
PropagateHeaders(h, o) ==
  LET h1 == RequestidHeader(h, o.RequestID)
      h2 == HeaderSet(h1, "X-Sigsci-Agentresponse", Itoa(o.WAFResponse))
      h4 == ClearAgentHeaders(h2)
  IN ApplyRequestHeaders(h4, o.RequestHeaders)

\* ioutil.ReadAll: the bytes the reader still holds
ReadAll(body) == body.data

\* a reader after it was read to its end and closed
Drained(body) == [body EXCEPT !.data = "", !.closed = TRUE]

\* the bytes inspectorPreRequest reads for the agent (reqbody); none when
\* the body is not selected
RequestBody(rq, cfg) == IF shouldReadBody(rq, cfg) THEN ReadAll(rq.Body) ELSE ""

\* mutant: the body is read for the agent and not rebound
BufferBody_NoRebind(rq, cfg) ==
  IF shouldReadBody(rq, cfg) THEN [rq EXCEPT !.Body = Drained(@)] ELSE rq

\* the body after inspectorPreRequest: read in full, closed and rebound
\* to an in-memory reader over the bytes read when shouldReadBody selects
\* it
BufferBody(rq, cfg) ==
  IF shouldReadBody(rq, cfg)
  THEN [rq EXCEPT !.Body = [reader |-> "buffer", data |-> ReadAll(rq.Body),
                            closed |-> TRUE]]
  ELSE rq

\* what inspectorPreRequest makes of request rq on reply o
AfterPreRequest(rq, o, cfg) ==
  [BufferBody(rq, cfg) EXCEPT !.Header = PropagateHeaders(@, o)]

\* mutant: the error of inspectorPreRequest is not acted on
PreRequestFailed_Ignored(o) == FALSE

\* whether ServeHTTP takes the fail-open branch after inspectorPreRequest
PreRequestFailed(o) == o.err

\* inspectorPreRequest with a reply of the given set and, on an error, the
\* fail-open call of the handler
PreRequestCall(r, replies) ==
  /\ pc[r] = "pre"
  /\ \E o \in replies :
       /\ out' = [out EXCEPT ![r] = o]
       /\ IF PreRequestFailed(o)
          THEN /\ req' = [req EXCEPT ![r] = BufferBody(@, config)]
               /\ pc' = [pc EXCEPT ![r] = "handler"]
               /\ hw' = [hw EXCEPT ![r] = "orig"]
               /\ hist' = [hist EXCEPT ![r] = @ \o <<"PreRequest", "Handler">>]
               /\ UNCHANGED <<rw, rw0, msg>>
          ELSE /\ req' = [req EXCEPT ![r] =
                            [BufferBody(@, config) EXCEPT
                               !.Header = PropagateHeaders(@, o)]]
               /\ msg' = [msg EXCEPT ![r] = [NoMsg EXCEPT !.RequestID = o.RequestID]]
               /\ rw' = [rw EXCEPT ![r] = NewResponseWriter(w[r])]
               /\ rw0' = [rw0 EXCEPT ![r] = RW(NewResponseWriter(w[r]), w[r])]
               /\ pc' = [pc EXCEPT ![r] = "dispatch"]
               /\ hist' = Log(r, "PreRequest")
               /\ UNCHANGED hw
  /\ UNCHANGED <<modvars, req0, w, ops, finiwg, deferFini, bg, dur, fin>>

\* the PreRequest step of the lifecycle
InspectorPreRequest(r) ==
  /\ PreRequestCall(r, PreRequestReplies)
  /\ UNCHANGED iovars

\* the switch on the verdict
VerdictKind(code) ==
  CASE IsAllowCode(code) -> "allow"
    [] IsBlockCode(code) -> "block"
    [] OTHER -> "unknown"

\* mutant: any block status with a redirect URL redirects
RedirectApplies_AnyStatus(status, redirect) == Len(redirect) > 0

\* only a 3xx status with a redirect URL redirects
RedirectApplies(status, redirect) ==
  status >= 300 /\ status <= 399 /\ Len(redirect) > 0

\* the block branch: http.Redirect or http.Error on the recorder
BlockResponse(x, rq, status) ==
  LET redirect == HeaderGet(rq.Header, "X-Sigsci-Redirect")
  IN IF RedirectApplies(status, redirect)
     THEN HttpRedirect(x, rq, redirect, status)
     ELSE HttpError(x, status)

VerdictDispatch(r) ==
  /\ pc[r] = "dispatch"
  /\ IF VerdictKind(out[r].WAFResponse) = "block"
     THEN LET x == BlockResponse(RW(rw[r], w[r]), req[r], out[r].WAFResponse)
          IN /\ rw' = [rw EXCEPT ![r] = x.rec]
             /\ w' = [w EXCEPT ![r] = x.base]
             /\ pc' = [pc EXCEPT ![r] = "post"]
             /\ hist' = Log(r, IF RedirectApplies(out[r].WAFResponse,
                                     HeaderGet(req[r].Header, "X-Sigsci-Redirect"))
                                THEN "Redirect" ELSE "Block")
             /\ UNCHANGED hw
     ELSE /\ hw' = [hw EXCEPT ![r] = "rec"]
          /\ pc' = [pc EXCEPT ![r] = "handler"]
          /\ hist' = Log(r, "Handler")
          /\ UNCHANGED <<rw, w>>
  /\ UNCHANGED <<modvars, iovars, rw0, req0, req, ops, out, finiwg, deferFini, bg, msg, dur,
                 fin>>

(***************************************************************************)
(* The downstream handler                                                 *)
(***************************************************************************)
HandlerWriteHeader(r) ==
  /\ pc[r] = "handler"
  /\ ops[r] < MaxHandlerOps
  /\ \E s \in HandlerStatuses :
       IF hw[r] = "orig"
       THEN /\ w' = [w EXCEPT ![r] = BaseWriteHeader(@, s)]
            /\ UNCHANGED rw
       ELSE LET x == RecWriteHeader(RW(rw[r], w[r]), s)
            IN /\ rw' = [rw EXCEPT ![r] = x.rec]
               /\ w' = [w EXCEPT ![r] = x.base]
  /\ ops' = [ops EXCEPT ![r] = @ + 1]
  /\ UNCHANGED <<modvars, iovars, rw0, pc, req0, req, hw, out, finiwg, deferFini, bg, msg,
                 dur, fin, hist>>

HandlerWrite(r) ==
  /\ pc[r] = "handler"
  /\ ops[r] < MaxHandlerOps
  /\ \E n \in HandlerWriteSizes :
       IF hw[r] = "orig"
       THEN /\ w' = [w EXCEPT ![r] = BaseWrite(@, n)]
            /\ UNCHANGED rw
       ELSE LET x == RecWrite(RW(rw[r], w[r]), n)
            IN /\ rw' = [rw EXCEPT ![r] = x.rec]
               /\ w' = [w EXCEPT ![r] = x.base]
  /\ ops' = [ops EXCEPT ![r] = @ + 1]
  /\ UNCHANGED <<modvars, iovars, rw0, pc, req0, req, hw, out, finiwg, deferFini, bg, msg,
                 dur, fin, hist>>

\* the handler returns: to the post-response decision when it ran on the
\* recorder, to the return of ServeHTTP when it ran on the original writer
HandlerReturn(r) ==
  /\ pc[r] = "handler"
  /\ pc' = [pc EXCEPT ![r] = IF hw[r] = "rec" THEN "post" ELSE "ret"]
  /\ hist' = Log(r, "HandlerRet")
  /\ UNCHANGED <<modvars, iovars, rw0, req0, req, w, rw, hw, ops, out, finiwg, deferFini,
                 bg, msg, dur, fin>>

(***************************************************************************)
(* The post-response decision, the follow-up RPC and the finalizer        *)
(***************************************************************************)
\* mutant: the anomaly test comes before the request id test
Followup_AnomalyFirst(reqid, code, size, millis, cfg) ==
  IF code >= 300 \/ size >= cfg.anomalySize \/ millis >= cfg.anomalyDuration
  THEN "Post"
  ELSE IF Len(reqid) > 0 THEN "Update"
  ELSE "none"

\* mutant: the size threshold is exclusive
Followup_StrictSize(reqid, code, size, millis, cfg) ==
  IF Len(reqid) > 0 THEN "Update"
  ELSE IF code >= 300 \/ size > cfg.anomalySize \/ millis >= cfg.anomalyDuration
       THEN "Post"
  ELSE "none"

\* mutant: only server errors count as an anomalous status
Followup_ServerErrorsOnly(reqid, code, size, millis, cfg) ==
  IF Len(reqid) > 0 THEN "Update"
  ELSE IF code >= 500 \/ size >= cfg.anomalySize \/ millis >= cfg.anomalyDuration
       THEN "Post"
  ELSE "none"

\* which follow-up RPC ServeHTTP dispatches
Followup(reqid, code, size, millis, cfg) ==
  IF Len(reqid) > 0 THEN "Update"
  ELSE IF code >= 300 \/ size >= cfg.anomalySize \/ millis >= cfg.anomalyDuration
       THEN "Post"
  ELSE "none"

\* mutant: the goroutine is started without finiwg.Add(1)
WaitGroupAdd_Missing(n) == n

\* sync.WaitGroup
WaitGroupAdd(n) == n + 1

\* mutant: the background goroutine ends without finiwg.Done()
WaitGroupDone_Missing(n) == n

WaitGroupDone(n) == n - 1
WaitGroupWaitReturns(n) == n = 0

\* the decision after the response: the recorded code and size and the
\* elapsed time select UpdateRequest, PostRequest or nothing; the goroutine
\* of the call is started after finiwg.Add(1)
PostResponse(r) ==
  /\ pc[r] = "post"
  /\ \E millis \in ElapsedMillis :
       LET code == rw[r].code
           size == rw[r].size
           kind == Followup(msg[r].RequestID, code, size, millis, config)
       IN /\ dur' = [dur EXCEPT ![r] = millis]
          /\ IF kind = "none"
             THEN UNCHANGED <<msg, finiwg, bg>>
             ELSE /\ msg' = [msg EXCEPT ![r] =
                               [@ EXCEPT !.ResponseCode = code,
                                         !.ResponseSize = size,
                                         !.ResponseMillis = millis,
                                         !.WAFResponse =
                                            IF kind = "Post"
                                            THEN out[r].WAFResponse ELSE @]]
                  /\ finiwg' = [finiwg EXCEPT ![r] = WaitGroupAdd(@)]
                  /\ bg' = [bg EXCEPT ![r] = [kind |-> kind, pc |-> "spawned", err |-> FALSE]]
  /\ pc' = [pc EXCEPT ![r] = "ret"]
  /\ UNCHANGED <<modvars, iovars, rw0, req0, req, w, rw, hw, ops, out, deferFini, fin, hist>>

\* mutant: the deferred function waits for finiwg itself instead of starting
\* a goroutine that does
DeferredReturns_WaitsInline(deferred, n) == deferred => WaitGroupWaitReturns(n)

\* whether the deferred function of ServeHTTP can return: it only starts
\* the finalizer goroutine, and waits for nothing
DeferredReturns(deferred, n) == TRUE

\* ServeHTTP returns; the deferred function starts the finalizer goroutine
ServeHTTPReturn(r) ==
  /\ pc[r] = "ret"
  /\ DeferredReturns(deferFini[r], finiwg[r])
  /\ pc' = [pc EXCEPT ![r] = "returned"]
  /\ fin' = [fin EXCEPT ![r] = IF deferFini[r] THEN "waiting" ELSE @]
  /\ hist' = Log(r, "Return")
  /\ UNCHANGED <<modvars, iovars, rw0, req0, req, w, rw, hw, ops, out, finiwg, deferFini,
                 bg, msg, dur>>

\* the background goroutine calls inspectorUpdateRequest / inspectorPostRequest
BackgroundCall(r) ==
  /\ bg[r].pc = "spawned"
  /\ bg' = [bg EXCEPT ![r].pc = "calling"]
  /\ hist' = Log(r, bg[r].kind \o "Call")
  /\ UNCHANGED <<modvars, iovars, rw0, pc, req0, req, w, rw, hw, ops, out, finiwg,
                 deferFini, msg, dur, fin>>

\* the RPC returns, with or without an error (which is only logged)
BackgroundReturn(r) ==
  /\ bg[r].pc = "calling"
  /\ \E err \in BOOLEAN : bg' = [bg EXCEPT ![r].pc = "returned", ![r].err = err]
  /\ hist' = Log(r, bg[r].kind \o "Ret")
  /\ UNCHANGED <<modvars, iovars, rw0, pc, req0, req, w, rw, hw, ops, out, finiwg,
                 deferFini, msg, dur, fin>>

\* the deferred finiwg.Done() of the background goroutine
BackgroundDone(r) ==
  /\ bg[r].pc = "returned"
  /\ bg' = [bg EXCEPT ![r].pc = "done"]
  /\ finiwg' = [finiwg EXCEPT ![r] = WaitGroupDone(@)]
  /\ UNCHANGED <<modvars, iovars, rw0, pc, req0, req, w, rw, hw, ops, out, deferFini, msg,
                 dur, fin, hist>>

\* finiwg.Wait() returns in the finalizer goroutine
\* the sum of the counters of a set of requests
RECURSIVE SumOver(_, _)
SumOver(wg, S) ==
  IF S = {} THEN 0
  ELSE LET q == CHOOSE q \in S : TRUE IN wg[q] + SumOver(wg, S \ {q})

\* mutant: one WaitGroup in the Module, shared by its requests
OwnWaitGroup_Shared(wg, r) == SumOver(wg, DOMAIN wg)

\* finiwg is a local variable of ServeHTTP: each call has its own, and the
\* goroutines of the call hold it
OwnWaitGroup(wg, r) == wg[r]

FiniWait(r) ==
  /\ fin[r] = "waiting"
  /\ WaitGroupWaitReturns(OwnWaitGroup(finiwg, r))
  /\ fin' = [fin EXCEPT ![r] = "woken"]
  /\ UNCHANGED <<modvars, iovars, rw0, pc, req0, req, w, rw, hw, ops, out, finiwg,
                 deferFini, bg, msg, dur, hist>>

\* m.inspFini(req)
FiniCall(r) ==
  /\ fin[r] = "woken"
  /\ fin' = [fin EXCEPT ![r] = "called"]
  /\ hist' = Log(r, "Fini")
  /\ UNCHANGED <<modvars, iovars, rw0, pc, req0, req, w, rw, hw, ops, out, finiwg,
                 deferFini, bg, msg, dur>>

Next ==
  \/ NewModule
  \/ \E r \in Reqs : ServeHTTPBegin(r)
  \/ \E r \in Reqs : InspectorPreRequest(r)
  \/ \E r \in Reqs : VerdictDispatch(r)
  \/ \E r \in Reqs : HandlerWriteHeader(r)
  \/ \E r \in Reqs : HandlerWrite(r)
  \/ \E r \in Reqs : HandlerReturn(r)
  \/ \E r \in Reqs : PostResponse(r)
  \/ \E r \in Reqs : ServeHTTPReturn(r)
  \/ \E r \in Reqs : BackgroundCall(r)
  \/ \E r \in Reqs : BackgroundReturn(r)
  \/ \E r \in Reqs : BackgroundDone(r)
  \/ \E r \in Reqs : FiniWait(r)
  \/ \E r \in Reqs : FiniCall(r)

Spec == Init /\ [][Next]_vars

\* the steps of a request that do not wait for the handler to act: an RPC
\* returns (it is bounded by the timeout), the handler returns, a
\* goroutine runs
Progress(r) ==
  \/ InspectorPreRequest(r)
  \/ VerdictDispatch(r)
  \/ HandlerReturn(r)
  \/ PostResponse(r)
  \/ ServeHTTPReturn(r)
  \/ BackgroundCall(r)
  \/ BackgroundReturn(r)
  \/ BackgroundDone(r)
  \/ FiniWait(r)
  \/ FiniCall(r)

\* a request does not stop while one of these steps can be taken
Fairness == \A r \in Reqs : WF_vars(Progress(r))

\* a module with an init and a fini hook, as NewModule returns it
InitLive ==
  /\ modState = "ready"
  /\ config = NewModuleConfig(HookOptions).c
  /\ initCalls = 1
  /\ module = ModuleOf(config)
  /\ ctor = [NoCtor EXCEPT !.options = HookOptions]
  /\ rpc = NoRPC
  /\ pc = [r \in Reqs |-> "idle"]
  /\ req0 = [r \in Reqs |-> NoRequest]
  /\ req = [r \in Reqs |-> NoRequest]
  /\ w = [r \in Reqs |-> NewBase]
  /\ rw = [r \in Reqs |-> NoRecorder]
  /\ hw = [r \in Reqs |-> "none"]
  /\ ops = [r \in Reqs |-> 0]
  /\ out = [r \in Reqs |-> NoReply]
  /\ finiwg = [r \in Reqs |-> 0]
  /\ deferFini = [r \in Reqs |-> FALSE]
  /\ bg = [r \in Reqs |-> NoBackground]
  /\ msg = [r \in Reqs |-> NoMsg]
  /\ dur = [r \in Reqs |-> -1]
  /\ fin = [r \in Reqs |-> "none"]
  /\ hist = [r \in Reqs |-> <<>>]
  /\ rw0 = [r \in Reqs |-> RW(NoRecorder, NewBase)]
  /\ inspin = [r \in Reqs |-> NoMsgIn]
  /\ handlerBody = [r \in Reqs |-> NotRead]
  /\ calls = [r \in Reqs |-> <<>>]
  /\ gin = NoGin
  /\ codec = NoCodec

NextLive ==
  \/ \E r \in Reqs : ServeHTTPBegin(r)
  \/ \E r \in Reqs : InspectorPreRequest(r)
  \/ \E r \in Reqs : VerdictDispatch(r)
  \/ \E r \in Reqs : HandlerWriteHeader(r)
  \/ \E r \in Reqs : HandlerWrite(r)
  \/ \E r \in Reqs : HandlerReturn(r)
  \/ \E r \in Reqs : PostResponse(r)
  \/ \E r \in Reqs : ServeHTTPReturn(r)
  \/ \E r \in Reqs : BackgroundCall(r)
  \/ \E r \in Reqs : BackgroundReturn(r)
  \/ \E r \in Reqs : BackgroundDone(r)
  \/ \E r \in Reqs : FiniWait(r)
  \/ \E r \in Reqs : FiniCall(r)

SpecLive == InitLive /\ [][NextLive]_vars /\ Fairness

(***************************************************************************)
(* Header propagation on its own: inspectorPreRequest applied to requests *)
(* and replies with longer RequestHeaders lists                           *)
(***************************************************************************)
\* entries in the RequestHeaders list of a reply
MaxPropHdrs == 2

PropHeaderPairs == AgentHeaderPairs \cup {<<"x-custom", "w">>}

\* the replies of the PreRequest call, and the call that returns an error
PropReplies ==
  [err : {FALSE}, WAFResponse : {200, 406}, RequestID : RequestIDs,
   RequestHeaders : SeqsUpTo(PropHeaderPairs, MaxPropHdrs),
   RespActions : {<<>>}]
  \cup {[NoReply EXCEPT !.err = TRUE]}

\* requests with and without client-supplied values for the headers the
\* agent names
PropRequests ==
  Requests \cup
  {WithClientHeader(MkRequest("GET", "/", "", 0, "", ""), "X-Custom", "c0")}

InitHeaders ==
  /\ modState = "ready"
  /\ config = DefaultConfig
  /\ initCalls = 1
  /\ module = ModuleOf(config)
  /\ ctor = NoCtor
  /\ rpc = NoRPC
  /\ pc = [r \in Reqs |-> "pre"]
  /\ \E rq \in PropRequests :
       /\ req0 = [r \in Reqs |-> rq]
       /\ req = [r \in Reqs |-> rq]
  /\ w = [r \in Reqs |-> NewBase]
  /\ rw = [r \in Reqs |-> NoRecorder]
  /\ hw = [r \in Reqs |-> "none"]
  /\ ops = [r \in Reqs |-> 0]
  /\ out = [r \in Reqs |-> NoReply]
  /\ finiwg = [r \in Reqs |-> 0]
  /\ deferFini = [r \in Reqs |-> FALSE]
  /\ bg = [r \in Reqs |-> NoBackground]
  /\ msg = [r \in Reqs |-> NoMsg]
  /\ dur = [r \in Reqs |-> -1]
  /\ fin = [r \in Reqs |-> "none"]
  /\ hist = [r \in Reqs |-> <<>>]
  /\ rw0 = [r \in Reqs |-> RW(NoRecorder, NewBase)]
  /\ inspin = [r \in Reqs |-> NoMsgIn]
  /\ handlerBody = [r \in Reqs |-> NotRead]
  /\ calls = [r \in Reqs |-> <<>>]
  /\ gin = NoGin
  /\ codec = NoCodec

\* the PreRequest step of ServeHTTP on these replies: with an error the
\* request headers are left alone and the handler is called; else the
\* headers are propagated to the request, the message of the follow-up
\* call holds the request id and the recorder is made
PreRequestHeaders(r) ==
  /\ PreRequestCall(r, PropReplies)
  /\ UNCHANGED iovars

NextHeaders == \E r \in Reqs : PreRequestHeaders(r)

SpecHeaders == InitHeaders /\ [][NextHeaders]_vars

(***************************************************************************)
(* inspectorPreRequest with its message: the body-read gate, the          *)
(* buffering of the body, the RPCMsgIn sent to the agent and the body the *)
(* handler reads afterwards                                               *)
(***************************************************************************)
\* the value given to the MaxContentLength option
MaxBodyOpt == 2

ByteAt(i) == CASE i % 3 = 1 -> "a" [] i % 3 = 2 -> "b" [] OTHER -> "c"

\* a body of n bytes
RECURSIVE Blob(_)
Blob(n) == IF n = 0 THEN "" ELSE Blob(n - 1) \o ByteAt(n)

\* time.Duration.Milliseconds of a duration given in nanoseconds
Milliseconds(d) ==
  IF d >= 0 THEN d \div 1000000 ELSE 0 - ((0 - d) \div 1000000)

\* the permutations of a set, as sequences
RECURSIVE Perms(_)
Perms(S) ==
  IF S = {} THEN {<<>>}
  ELSE UNION {{<<x>> \o p : p \in Perms(S \ {x})} : x \in S}

\* the orders in which a range over the header map can yield its names
Orders(rq) == Perms({k \in HeaderNames : rq.Header[k] # <<>>})

\* the name/value pairs of a header map, the names in the given order
RECURSIVE HeaderPairs(_, _)
HeaderPairs(h, order) ==
  IF order = <<>> THEN <<>>
  ELSE [i \in 1..Len(h[Head(order)]) |-> <<Head(order), h[Head(order)][i]>>]
       \o HeaderPairs(h, Tail(order))

\* mutant: the Host entry is appended after the headers
requestHeader_HostLast(rq, order) ==
  HeaderPairs(rq.Header, order)
  \o (IF Len(rq.Host) > 0 THEN << <<"Host", rq.Host>> >> ELSE <<>>)

\* requestHeader(r); order is the order of the range over r.Header
requestHeader(rq, order) ==
  (IF Len(rq.Host) > 0 THEN << <<"Host", rq.Host>> >> ELSE <<>>)
  \o HeaderPairs(rq.Header, order)

\* what a configured raw header extractor returns when it returns a list
ExtractedHeaders == << <<"X-Raw", "1">> >>

\* NewRPCMsgIn(mcfg, r, postbody, code, size, dur)
NewRPCMsgIn(cfg, rq, postbody, code, size, d, order) ==
  [Method |-> rq.Method, PostBody |-> postbody, ResponseCode |-> code,
   ResponseMillis |-> Milliseconds(d), ResponseSize |-> size,
   HeadersIn |->
     IF cfg.rawHeaderExtractor = "list" THEN ExtractedHeaders
     ELSE requestHeader(rq, order)]

\* the configurations of the body gate
BodyConfigs ==
  [inspector : {"nil"}, inspInit : {FALSE}, inspFini : {FALSE},
   rpcNetwork : {"unix"}, rpcAddress : {"/var/run/sigsci.sock"},
   anomalySize : {AnomalySizeOpt}, anomalyDuration : {AnomalyMillisOpt},
   allowUnknownContentLength : BOOLEAN,
   maxContentLength : {MaxBodyOpt},
   extendContentTypes : BOOLEAN,
   expectedContentTypes : {{}, {"application/custom"}},
   rawHeaderExtractor : {"none"}]

\* the Content-Type values of a request
ContentTypeValues ==
  {<<>>, <<"bad/type">>, <<"application/custom">>,
   <<"bad/type", "text/plain">>}
  \cup
  {<<s>> : s \in
     {"application/json", "Application/JSON", "text/javascript",
      "application/x-www-form-urlencoded", "multipart/form-data; boundary=b",
      "text/xml;charset=UTF-8", "application/xml", "image/svg+xml",
      "application/grpc", "application/graphql", "text/plain, text/html"}}

\* a body reader over data
BodyOf(data) == [reader |-> "orig", data |-> data, closed |-> FALSE]

\* declared content lengths with the bodies that come with them: no
\* reader, a body as long as declared, a body cut short, and bodies of
\* unknown length
BodyShapes ==
  {[cl |-> n, body |-> [reader |-> "nil", data |-> "", closed |-> FALSE]] :
     n \in {0, 1}}
  \cup {[cl |-> n, body |-> BodyOf(Blob(n))] : n \in 0..(MaxBodyOpt + 1)}
  \cup {[cl |-> MaxBodyOpt, body |-> BodyOf(Blob(MaxBodyOpt - 1))]}
  \cup {[cl |-> -1, body |-> BodyOf(Blob(n))] : n \in {1, MaxBodyOpt + 1}}

BodyRequests ==
  {[MkRequest("POST", "/", "", 0, "", "") EXCEPT
      !.ContentLength = sh.cl, !.Body = sh.body,
      !.Header["Content-Type"] = ct] :
     sh \in BodyShapes, ct \in ContentTypeValues}

\* configurations without and with a raw header extractor
HeaderConfigs ==
  {[DefaultConfig EXCEPT !.rawHeaderExtractor = x, !.maxContentLength = MaxBodyOpt] :
     x \in {"none", "nil", "list"}}

\* requests with and without Host, with one and with several header values
HeaderRequests ==
  {[rq EXCEPT !.Host = host] :
     host \in {"", "example.com"},
     rq \in {MkRequest("GET", "/", "", 0, "", ""),
             MkRequest("POST", "/", "application/json", 2, "{}", ""),
             WithClientHeader(
               WithClientHeader(
                 MkRequest("POST", "/", "application/json", 2, "{}", ""),
                 "X-Custom", "c0"),
               "X-Custom", "c1")}}

BodyInputs ==
  (BodyConfigs \X BodyRequests) \cup (HeaderConfigs \X HeaderRequests)

\* the replies of the PreRequest call: allow, block, and an error
BodyReplies ==
  {[NoReply EXCEPT !.WAFResponse = 200], [NoReply EXCEPT !.WAFResponse = 406],
   [NoReply EXCEPT !.err = TRUE]}

InitBody ==
  /\ modState = "ready"
  /\ initCalls = 1
  /\ pc = [r \in Reqs |-> "pre"]
  /\ \E in \in BodyInputs :
       /\ config = in[1]
       /\ req0 = [r \in Reqs |-> in[2]]
       /\ req = [r \in Reqs |-> in[2]]
  /\ module = ModuleOf(config)
  /\ ctor = NoCtor
  /\ rpc = NoRPC
  /\ w = [r \in Reqs |-> NewBase]
  /\ rw = [r \in Reqs |-> NoRecorder]
  /\ hw = [r \in Reqs |-> "none"]
  /\ ops = [r \in Reqs |-> 0]
  /\ out = [r \in Reqs |-> NoReply]
  /\ finiwg = [r \in Reqs |-> 0]
  /\ deferFini = [r \in Reqs |-> FALSE]
  /\ bg = [r \in Reqs |-> NoBackground]
  /\ msg = [r \in Reqs |-> NoMsg]
  /\ dur = [r \in Reqs |-> -1]
  /\ fin = [r \in Reqs |-> "none"]
  /\ hist = [r \in Reqs |-> <<>>]
  /\ rw0 = [r \in Reqs |-> RW(NoRecorder, NewBase)]
  /\ inspin = [r \in Reqs |-> NoMsgIn]
  /\ handlerBody = [r \in Reqs |-> NotRead]
  /\ calls = [r \in Reqs |-> <<>>]
  /\ gin = NoGin
  /\ codec = NoCodec

\* inspectorPreRequest with the message it sends: the body is read when
\* selected, NewRPCMsgIn builds the message with the bytes read, -1, -1
\* and 0, and the call is made
InspectorPreRequestMsg(r) ==
  /\ \E order \in Orders(req[r]) :
       inspin' = [inspin EXCEPT ![r] =
                    NewRPCMsgIn(config, req[r], RequestBody(req[r], config),
                                -1, -1, 0, order)]
  /\ PreRequestCall(r, BodyReplies)
  /\ UNCHANGED <<handlerBody, calls, gin, codec>>

\* the handler reads the request body to its end
HandlerReadBody(r) ==
  /\ pc[r] = "handler"
  /\ ~handlerBody[r].read
  /\ handlerBody' = [handlerBody EXCEPT ![r] =
                       [read |-> TRUE, data |-> ReadAll(req[r].Body)]]
  /\ req' = [req EXCEPT ![r].Body = Drained(@)]
  /\ UNCHANGED <<modvars, inspin, calls, gin, codec, rw0, pc, req0, w, rw, hw, ops, out, finiwg,
                 deferFini, bg, msg, dur, fin, hist>>

NextBody ==
  \/ \E r \in Reqs : InspectorPreRequestMsg(r)
  \/ \E r \in Reqs : VerdictDispatch(r)
  \/ \E r \in Reqs : HandlerReadBody(r)

SpecBody == InitBody /\ [][NextBody]_vars

(***************************************************************************)
(* The configuration: NewModule over lists of options, and SetOptions     *)
(* called on the configuration that Module.ModuleConfig returns           *)
(***************************************************************************)
\* the longest option list
MaxOptions == 2

\* the networks and addresses Socket is called with
Networks == {"unix", "tcp", "udp"}
Addresses ==
  {"/tmp/agent.sock", "agent.sock", "0.0.0.0:1234", "localhost", "::1:80"}

\* the configuration FromModuleConfig is given: one built with other
\* thresholds, a tcp socket and the fini hook
ClonedConfig ==
  NewModuleConfig(<<AnomalySize(8192), AnomalyDuration(10000),
                    Socket("tcp", "0.0.0.0:1234"),
                    CustomInspector("custom", FALSE, TRUE)>>).c

\* the options: sockets, body limits, a custom inspector with both hooks,
\* the deprecated alternative block code, the anomaly thresholds and the
\* clone of a configuration
Options ==
  {Socket(n, a) : n \in Networks, a \in Addresses}
  \cup {MaxContentLength(MaxBodyOpt), AllowUnknownContentLength(TRUE),
        CustomInspector("custom", TRUE, TRUE), AltResponseCodes(250),
        AnomalySize(AnomalySizeOpt), AnomalyDuration(AnomalyMillisOpt),
        FromModuleConfig(ClonedConfig)}

\* the option lists NewModule is called with
OptionLists ==
  UNION {[1..n -> Options] : n \in 0..MaxOptions}

NewModuleOptions == NewModuleWith(OptionLists)

\* m.ModuleConfig().SetOptions(o): the caller changes the configuration of
\* the module through the pointer the accessor hands out; one such call is
\* followed, with the configuration it met and the error it returned
ModuleConfigSetOptions ==
  /\ modState = "ready"
  /\ ctor.later = <<>>
  /\ \E o \in Options :
       LET r == SetOptions(config, <<o>>) IN
         /\ config' = r.c
         /\ ctor' = [ctor EXCEPT
                       !.later = <<[opt |-> o, err |-> r.err, was |-> config]>>]
  /\ UNCHANGED <<modState, initCalls, module, rpc, pc, req0, req, w, rw, hw, ops,
                 out, finiwg, deferFini, bg, msg, dur, fin, hist, rw0,
                 iovars>>

NextConfig == NewModuleOptions \/ ModuleConfigSetOptions

SpecConfig == Init /\ [][NextConfig]_vars

(***************************************************************************)
(* The RPCInspector: the connection and the deadline of a call            *)
(***************************************************************************)
\* RPCInspector.Timeout, in ticks of the clock
RPCTimeout == 2

\* the calls followed, and how long a call without deadline is followed
MaxCalls == 2
MaxElapsed == 4

RPCMethods ==
  {"RPC.ModuleInit", "RPC.PreRequest", "RPC.PostRequest", "RPC.UpdateRequest"}

\* the connections that are open
OpenConns(conns) == {i \in DOMAIN conns : conns[i] = "open"}

\* mutant: the deadline is taken after the connection is made
Deadline_AfterDial(start, dialed) == dialed + RPCTimeout

\* makeConnection: deadline := time.Now().Add(ri.Timeout), before dialing
Deadline(start, dialed) == start + RPCTimeout

\* mutant: the client is closed only after a call without error
CloseRPCClient_OnSuccess(ri, err, keeps) ==
  IF err = "" THEN "closed" ELSE "open"

\* CloseRPCClient: the state of the client's connection after it; with
\* FiniRPCClientFunc set the hook decides (keeps), else client.Close()
CloseRPCClient(ri, err, keeps) ==
  IF ri.fini THEN (IF keeps THEN "open" ELSE "closed") ELSE "closed"

\* the error the method returns for the error of the call
\* (UpdateRequest returns it as it is, the others with a prefix)
MethodErr(method, err) ==
  IF err = "" THEN ""
  ELSE IF method = "RPC.UpdateRequest" THEN err
  ELSE method \o " call failed: " \o err

\* the method is entered and calls GetRPCClient: with InitRPCClientFunc
\* the hook gives an error, a client on a new connection or a client on a
\* connection it kept; else the deadline is taken and the dial starts
RPCCall ==
  /\ rpc.pc = "idle"
  /\ rpc.calls < MaxCalls
  /\ \E method \in RPCMethods :
       LET in == [rpc EXCEPT !.method = method, !.elapsed = 0, !.cur = 0,
                             !.opened = 0, !.reused = FALSE, !.err = "",
                             !.deadline = -1]
       IN  IF rpc.init
           THEN \/ rpc' = [in EXCEPT !.pc = "returned",
                                     !.err = MethodErr(method, "init failed")]
                \/ rpc' = [in EXCEPT !.pc = "calling",
                                     !.conns = Append(@, "open"),
                                     !.cur = Len(rpc.conns) + 1,
                                     !.opened = 1]
                \/ \E i \in OpenConns(rpc.conns) :
                     rpc' = [in EXCEPT !.pc = "calling", !.cur = i,
                                       !.reused = TRUE]
           ELSE rpc' = [in EXCEPT !.pc = "dialing"]
  /\ UNCHANGED <<modState, config, initCalls, module, ctor, pc, req0, req, w,
                 rw, hw, ops, out, finiwg, deferFini, bg, msg, dur, fin, hist,
                 rw0, iovars>>

\* net.DialTimeout returns: with a connection, before its timeout, and the
\* deadline is set on it; or with an error, at any time, and at the latest
\* when the timeout is reached
RPCDial ==
  /\ rpc.pc = "dialing"
  /\ \/ /\ rpc.elapsed < RPCTimeout
        /\ rpc' = [rpc EXCEPT !.pc = "calling",
                              !.conns = Append(@, "open"),
                              !.cur = Len(rpc.conns) + 1,
                              !.opened = 1,
                              !.deadline = Deadline(0, rpc.elapsed)]
     \/ \E e \in {"connection refused"} \cup
                 (IF rpc.elapsed >= RPCTimeout THEN {"i/o timeout"} ELSE {}) :
          /\ e = "connection refused" => rpc.elapsed < RPCTimeout
          /\ rpc' = [rpc EXCEPT !.pc = "returned",
                                !.err = MethodErr(rpc.method, e)]
  /\ UNCHANGED <<modState, config, initCalls, module, ctor, pc, req0, req, w,
                 rw, hw, ops, out, finiwg, deferFini, bg, msg, dur, fin, hist,
                 rw0, iovars>>

\* client.Call returns: without error, before the deadline of the
\* connection; with an error of the exchange, at any time; with a timeout,
\* when the deadline is reached. CloseRPCClient follows
RPCExchange ==
  /\ rpc.pc = "calling"
  /\ \E e \in {"", "remote error", "i/o timeout"}, keeps \in BOOLEAN :
       /\ e # "i/o timeout" => (rpc.deadline = -1 \/ rpc.elapsed < rpc.deadline)
       /\ e = "i/o timeout" => (rpc.deadline # -1 /\ rpc.elapsed >= rpc.deadline)
       /\ keeps => rpc.fini
       /\ rpc' = [rpc EXCEPT !.pc = "returned",
                             !.conns[rpc.cur] = CloseRPCClient(rpc, e, keeps),
                             !.err = MethodErr(rpc.method, e)]
  /\ UNCHANGED <<modState, config, initCalls, module, ctor, pc, req0, req, w,
                 rw, hw, ops, out, finiwg, deferFini, bg, msg, dur, fin, hist,
                 rw0, iovars>>

\* time passes while the call is blocked: in the dial up to its timeout, in
\* the exchange up to the deadline of the connection
RPCTick ==
  /\ \/ rpc.pc = "dialing" /\ rpc.elapsed < RPCTimeout
     \/ rpc.pc = "calling" /\ rpc.deadline # -1 /\ rpc.elapsed < rpc.deadline
     \/ rpc.pc = "calling" /\ rpc.deadline = -1 /\ rpc.elapsed < MaxElapsed
  /\ rpc' = [rpc EXCEPT !.elapsed = @ + 1]
  /\ UNCHANGED <<modState, config, initCalls, module, ctor, pc, req0, req, w,
                 rw, hw, ops, out, finiwg, deferFini, bg, msg, dur, fin, hist,
                 rw0, iovars>>

\* the caller has the result; the inspector is ready for the next call
RPCReturn ==
  /\ rpc.pc = "returned"
  /\ rpc' = [rpc EXCEPT !.pc = "idle", !.calls = @ + 1]
  /\ UNCHANGED <<modState, config, initCalls, module, ctor, pc, req0, req, w,
                 rw, hw, ops, out, finiwg, deferFini, bg, msg, dur, fin, hist,
                 rw0, iovars>>

\* the inspector of a module, without and with the client hooks
InitRPC ==
  /\ modState = "ready"
  /\ config = DefaultConfig
  /\ initCalls = 0
  /\ module = ModuleOf(config)
  /\ ctor = NoCtor
  /\ \E init, fini \in BOOLEAN :
       rpc = [NoRPC EXCEPT !.init = init, !.fini = fini]
  /\ pc = [r \in Reqs |-> "idle"]
  /\ req0 = [r \in Reqs |-> NoRequest]
  /\ req = [r \in Reqs |-> NoRequest]
  /\ w = [r \in Reqs |-> NewBase]
  /\ rw = [r \in Reqs |-> NoRecorder]
  /\ hw = [r \in Reqs |-> "none"]
  /\ ops = [r \in Reqs |-> 0]
  /\ out = [r \in Reqs |-> NoReply]
  /\ finiwg = [r \in Reqs |-> 0]
  /\ deferFini = [r \in Reqs |-> FALSE]
  /\ bg = [r \in Reqs |-> NoBackground]
  /\ msg = [r \in Reqs |-> NoMsg]
  /\ dur = [r \in Reqs |-> -1]
  /\ fin = [r \in Reqs |-> "none"]
  /\ hist = [r \in Reqs |-> <<>>]
  /\ rw0 = [r \in Reqs |-> RW(NoRecorder, NewBase)]
  /\ inspin = [r \in Reqs |-> NoMsgIn]
  /\ handlerBody = [r \in Reqs |-> NotRead]
  /\ calls = [r \in Reqs |-> <<>>]
  /\ gin = NoGin
  /\ codec = NoCodec

NextRPC == RPCCall \/ RPCDial \/ RPCExchange \/ RPCTick \/ RPCReturn

SpecRPC == InitRPC /\ [][NextRPC]_vars

(***************************************************************************)
(* The response recorder on its own: newResponseWriter on bases with and  *)
(* without the optional interfaces, with header actions, and a handler    *)
(* that calls WriteHeader, Write and, when the writer has it, Flush       *)
(***************************************************************************)
\* actions in the list newResponseWriter is given
MaxActions == 2

RecorderActions ==
  {Action("AddHdr", <<"x-custom", "a">>),
   Action("SetHdr", <<"X-Custom", "s">>),
   Action("SetNEHdr", <<"X-Custom", "n">>),
   Action("DelHdr", <<"x-custom">>),
   Action("SetHdr", <<"content-type", "text/json">>)}

RecorderActionLists == SeqsUpTo(RecorderActions, MaxActions)

\* response headers set before the recorder is made; the last one has an
\* empty first value
BaseHeaders ==
  {EmptyHeader,
   [EmptyHeader EXCEPT !["X-Custom"] = <<"b">>,
                       !["Content-Type"] = <<"text/plain">>],
   [EmptyHeader EXCEPT !["X-Custom"] = <<"", "c">>]}

\* the bases and action lists newResponseWriter is called with: every set
\* of optional interfaces, and every action list on every header set
RecorderInputs ==
  {<<BaseWriter(caps, EmptyHeader), <<>> >> : caps \in SUBSET Capabilities}
  \cup
  {<<BaseWriter(Capabilities, h), as>> :
     h \in BaseHeaders, as \in RecorderActionLists}

\* the state in which a handler is about to use the recorder that
\* newResponseWriter made of one of the inputs
InitRecorderWith(inputs) ==
  /\ modState = "ready"
  /\ config = DefaultConfig
  /\ initCalls = 1
  /\ module = ModuleOf(config)
  /\ ctor = NoCtor
  /\ rpc = NoRPC
  /\ pc = [r \in Reqs |-> "handler"]
  /\ req0 = [r \in Reqs |-> NoRequest]
  /\ req = [r \in Reqs |-> NoRequest]
  /\ \E in \in inputs :
       /\ w = [r \in Reqs |-> in[1]]
       /\ rw = [r \in Reqs |-> newResponseWriter(in[1], in[2])]
       /\ rw0 = [r \in Reqs |-> RW(newResponseWriter(in[1], in[2]), in[1])]
  /\ inspin = [r \in Reqs |-> NoMsgIn]
  /\ handlerBody = [r \in Reqs |-> NotRead]
  /\ calls = [r \in Reqs |-> <<>>]
  /\ gin = NoGin
  /\ codec = NoCodec
  /\ hw = [r \in Reqs |-> "rec"]
  /\ ops = [r \in Reqs |-> 0]
  /\ out = [r \in Reqs |-> NoReply]
  /\ finiwg = [r \in Reqs |-> 0]
  /\ deferFini = [r \in Reqs |-> FALSE]
  /\ bg = [r \in Reqs |-> NoBackground]
  /\ msg = [r \in Reqs |-> NoMsg]
  /\ dur = [r \in Reqs |-> -1]
  /\ fin = [r \in Reqs |-> "none"]
  /\ hist = [r \in Reqs |-> <<>>]

\* a call of the handler on its writer, as the log of the calls holds it
Call(op, arg) == [op |-> op, arg |-> arg]

\* http.Flusher.Flush of the base: the response header goes out if it has
\* not yet
BaseFlush(b) == [BaseWriteHeader(b, 200) EXCEPT !.flushed = TRUE]

\* responseRecorderFlusher.Flush
RecFlush(x) ==
  IF "Flusher" \in x.base.caps THEN RW(x.rec, BaseFlush(x.base)) ELSE x

\* the handler calls WriteHeader(s) on the recorder
CallWriteHeader(r) ==
  /\ pc[r] = "handler" /\ hw[r] = "rec"
  /\ ops[r] < MaxHandlerOps
  /\ \E s \in HandlerStatuses :
       LET x == RecWriteHeader(RW(rw[r], w[r]), s)
       IN /\ rw' = [rw EXCEPT ![r] = x.rec]
          /\ w' = [w EXCEPT ![r] = x.base]
          /\ hist' = [hist EXCEPT ![r] = Append(@, Call("WriteHeader", s))]
  /\ pc' = [pc EXCEPT ![r] =
              IF MergePanics(RW(rw[r], w[r])) THEN "panicked" ELSE @]
  /\ ops' = [ops EXCEPT ![r] = @ + 1]
  /\ UNCHANGED <<modvars, iovars, rw0, req0, req, hw, out, finiwg, deferFini, bg,
                 msg, dur, fin>>

\* the handler calls Write with n bytes on the recorder
CallWrite(r) ==
  /\ pc[r] = "handler" /\ hw[r] = "rec"
  /\ ops[r] < MaxHandlerOps
  /\ \E n \in HandlerWriteSizes :
       LET x == RecWrite(RW(rw[r], w[r]), n)
       IN /\ rw' = [rw EXCEPT ![r] = x.rec]
          /\ w' = [w EXCEPT ![r] = x.base]
          /\ hist' = [hist EXCEPT ![r] = Append(@, Call("Write", n))]
  /\ pc' = [pc EXCEPT ![r] =
              IF MergePanics(RW(rw[r], w[r])) THEN "panicked" ELSE @]
  /\ ops' = [ops EXCEPT ![r] = @ + 1]
  /\ UNCHANGED <<modvars, iovars, rw0, req0, req, hw, out, finiwg, deferFini, bg,
                 msg, dur, fin>>

\* io.ReaderFrom.ReadFrom of the base, or io.Copy to the base when it has
\* none: a base that has it takes the n bytes of the reader, the other one
\* gets them by Write; both commit the header first
BaseReadFrom(b, n) == BaseWrite(b, n)

\* responseRecorder.ReadFrom: the reader goes to the base; the recorder
\* itself is not touched
RecReadFrom(x, n) == RW(x.rec, BaseReadFrom(x.base, n))

\* the handler copies n bytes from a reader to its writer (io.Copy), which
\* calls ReadFrom of the recorder
CallReadFrom(r) ==
  /\ pc[r] = "handler" /\ hw[r] = "rec"
  /\ ops[r] < MaxHandlerOps
  /\ \E n \in HandlerWriteSizes :
       LET x == RecReadFrom(RW(rw[r], w[r]), n)
       IN /\ rw' = [rw EXCEPT ![r] = x.rec]
          /\ w' = [w EXCEPT ![r] = x.base]
          /\ hist' = [hist EXCEPT ![r] = Append(@, Call("ReadFrom", n))]
  /\ ops' = [ops EXCEPT ![r] = @ + 1]
  /\ UNCHANGED <<modvars, iovars, rw0, pc, req0, req, hw, out, finiwg, deferFini, bg,
                 msg, dur, fin>>

\* the handler probes its writer for http.Flusher and calls Flush when the
\* writer is one
CallFlush(r) ==
  /\ pc[r] = "handler" /\ hw[r] = "rec"
  /\ ops[r] < MaxHandlerOps
  /\ rw[r].flusher
  /\ LET x == RecFlush(RW(rw[r], w[r]))
     IN /\ rw' = [rw EXCEPT ![r] = x.rec]
        /\ w' = [w EXCEPT ![r] = x.base]
  /\ hist' = [hist EXCEPT ![r] = Append(@, Call("Flush", 0))]
  /\ ops' = [ops EXCEPT ![r] = @ + 1]
  /\ UNCHANGED <<modvars, iovars, rw0, pc, req0, req, hw, out, finiwg, deferFini, bg,
                 msg, dur, fin>>

NextRecorder ==
  \/ \E r \in Reqs : CallWriteHeader(r)
  \/ \E r \in Reqs : CallWrite(r)
  \/ \E r \in Reqs : CallFlush(r)
  \/ \E r \in Reqs : CallReadFrom(r)

InitRecorder == InitRecorderWith(RecorderInputs)

SpecRecorder == InitRecorder /\ [][NextRecorder]_vars

(***************************************************************************)
(* The recorder with the action lists an agent may send that mergeHeader  *)
(* does not expect: opcodes it does not know, and actions with fewer      *)
(* arguments than their opcode reads                                      *)
(***************************************************************************)
AgentActions ==
  {Action("AddHdr", <<"x-custom", "a">>),
   Action("Unknown", <<"x-custom", "u">>),
   Action("Unknown", <<>>),
   Action("AddHdr", <<"x-custom">>),
   Action("SetHdr", <<>>),
   Action("SetNEHdr", <<"x-custom">>),
   Action("DelHdr", <<>>)}

AgentActionLists == SeqsUpTo(AgentActions, MaxActions)

AgentActionInputs ==
  {<<BaseWriter(Capabilities, h), as>> :
     h \in BaseHeaders, as \in AgentActionLists}

InitAgentActions == InitRecorderWith(AgentActionInputs)

SpecAgentActions == InitAgentActions /\ [][NextRecorder]_vars

(***************************************************************************)
(* The request lifecycle with a handler whose calls on its writer are     *)
(* logged: WriteHeader, Write, and ReadFrom (the call io.Copy and         *)
(* http.ServeContent make on a writer that is an io.ReaderFrom)           *)
(***************************************************************************)
\* the handler calls WriteHeader(s) on the writer it was invoked with
HandlerCallWriteHeader(r) ==
  /\ pc[r] = "handler"
  /\ ops[r] < MaxHandlerOps
  /\ \E s \in HandlerStatuses :
       /\ IF hw[r] = "orig"
          THEN /\ w' = [w EXCEPT ![r] = BaseWriteHeader(@, s)]
               /\ UNCHANGED rw
          ELSE LET x == RecWriteHeader(RW(rw[r], w[r]), s)
               IN /\ rw' = [rw EXCEPT ![r] = x.rec]
                  /\ w' = [w EXCEPT ![r] = x.base]
       /\ calls' = [calls EXCEPT ![r] = Append(@, Call("WriteHeader", s))]
  /\ ops' = [ops EXCEPT ![r] = @ + 1]
  /\ UNCHANGED <<modvars, inspin, handlerBody, gin, codec, rw0, pc, req0, req,
                 hw, out,
                 finiwg, deferFini, bg, msg, dur, fin, hist>>

\* the handler calls Write with n bytes on the writer it was invoked with
HandlerCallWrite(r) ==
  /\ pc[r] = "handler"
  /\ ops[r] < MaxHandlerOps
  /\ \E n \in HandlerWriteSizes :
       /\ IF hw[r] = "orig"
          THEN /\ w' = [w EXCEPT ![r] = BaseWrite(@, n)]
               /\ UNCHANGED rw
          ELSE LET x == RecWrite(RW(rw[r], w[r]), n)
               IN /\ rw' = [rw EXCEPT ![r] = x.rec]
                  /\ w' = [w EXCEPT ![r] = x.base]
       /\ calls' = [calls EXCEPT ![r] = Append(@, Call("Write", n))]
  /\ ops' = [ops EXCEPT ![r] = @ + 1]
  /\ UNCHANGED <<modvars, inspin, handlerBody, gin, codec, rw0, pc, req0, req,
                 hw, out,
                 finiwg, deferFini, bg, msg, dur, fin, hist>>

\* the handler copies n bytes from a reader to the writer it was invoked
\* with
HandlerCallReadFrom(r) ==
  /\ pc[r] = "handler"
  /\ ops[r] < MaxHandlerOps
  /\ \E n \in HandlerWriteSizes :
       /\ IF hw[r] = "orig"
          THEN /\ w' = [w EXCEPT ![r] = BaseReadFrom(@, n)]
               /\ UNCHANGED rw
          ELSE LET x == RecReadFrom(RW(rw[r], w[r]), n)
               IN /\ rw' = [rw EXCEPT ![r] = x.rec]
                  /\ w' = [w EXCEPT ![r] = x.base]
       /\ calls' = [calls EXCEPT ![r] = Append(@, Call("ReadFrom", n))]
  /\ ops' = [ops EXCEPT ![r] = @ + 1]
  /\ UNCHANGED <<modvars, inspin, handlerBody, gin, codec, rw0, pc, req0, req,
                 hw, out,
                 finiwg, deferFini, bg, msg, dur, fin, hist>>

NextFollowup ==
  \/ \E r \in Reqs : ServeHTTPBegin(r)
  \/ \E r \in Reqs : InspectorPreRequest(r)
  \/ \E r \in Reqs : VerdictDispatch(r)
  \/ \E r \in Reqs : HandlerCallWriteHeader(r)
  \/ \E r \in Reqs : HandlerCallWrite(r)
  \/ \E r \in Reqs : HandlerCallReadFrom(r)
  \/ \E r \in Reqs : HandlerReturn(r)
  \/ \E r \in Reqs : PostResponse(r)
  \/ \E r \in Reqs : ServeHTTPReturn(r)
  \/ \E r \in Reqs : BackgroundCall(r)
  \/ \E r \in Reqs : BackgroundReturn(r)
  \/ \E r \in Reqs : BackgroundDone(r)
  \/ \E r \in Reqs : FiniWait(r)
  \/ \E r \in Reqs : FiniCall(r)

SpecFollowup == InitLive /\ [][NextFollowup]_vars

(***************************************************************************)
(* The gin binding: Middleware installs Module.serveHTTP as the first     *)
(* handler of every chain; a gin.Context runs its chain with Next, which  *)
(* advances the index and calls the handlers until the index is past the  *)
(* end of the chain                                                       *)
(***************************************************************************)
\* application handlers in the chain behind the module
MaxGinHandlers == 2

GinVerdicts == {200, 300, 406, 599, 600}

\* the bytes an application handler of the model writes
GinHandlerBytes == 10

\* gin's ResponseWriter: WriteHeader only notes the status, and not after
\* the header was written; Write writes the header and counts the bytes
\* (the size is -1 until then)
GinWriteHeader(g, code) ==
  IF g.wsize >= 0 THEN g ELSE [g EXCEPT !.wstatus = code]
GinWrite(g, n) == [g EXCEPT !.wsize = (IF @ < 0 THEN 0 ELSE @) + n]

\* the methods of the requests the engine takes
GinMethods == {"GET", "POST"}

\* the block branch of serveHTTP, on a recorder over c.Writer: http.Redirect
\* writes the status and, for GET only, the anchor to the location;
\* http.Error writes the status and the status line as body
GinBlockResponse(g) ==
  LET redirect == IF g.redirect THEN "/login" ELSE ""
      loc == RedirectTarget(redirect, "/")
      h == GinWriteHeader(g, g.code)
      x == IF RedirectApplies(g.code, redirect)
           THEN IF g.method = "GET"
                THEN GinWrite(h, 9 + Len(loc) + 2 + Len(StatusText(g.code))
                                 + 6 + 1)
                ELSE h
           ELSE GinWrite(h, Len(Itoa(g.code)) + 1 + Len(StatusText(g.code))
                            + 1 + 1)
      what == IF RedirectApplies(g.code, redirect) THEN "Redirect" ELSE "Block"
  IN [x EXCEPT !.resp = Append(@, [by |-> 0, what |-> what])]

\* c.Next(): the index moves on and the loop over the handlers starts
GinNext(g) == [g EXCEPT !.index = @ + 1, !.depth = @ + 1, !.pc = "loop"]

\* the engine takes a request: the chain is the module's handler and the
\* application handlers of the route, and the engine calls c.Next()
GinServe ==
  /\ gin.pc = "idle"
  /\ \E apps \in 1..MaxGinHandlers, gate \in {"bypass", "failopen", "inspect"},
        method \in GinMethods, code \in GinVerdicts, redirect \in BOOLEAN,
        reqid \in RequestIDs :
       /\ gate # "inspect" => code = 200 /\ ~redirect /\ reqid = ""
       /\ gin' = GinNext([NoGin EXCEPT !.handlers = apps + 1, !.gate = gate,
                                       !.method = method, !.code = code, !.redirect = redirect,
                                       !.reqid = reqid])
  /\ UNCHANGED <<modvars, inspin, handlerBody, calls, codec, rw0, pc, req0, req,
                 w, rw, hw, ops, out, finiwg, deferFini, bg, msg, dur, fin, hist>>

\* the loop of Next calls the module's handler, which is first in the chain
GinCallMiddleware ==
  /\ gin.pc = "loop" /\ gin.index < gin.handlers /\ gin.index = 0
  /\ gin' = [gin EXCEPT !.pc = "serveHTTP"]
  /\ UNCHANGED <<modvars, inspin, handlerBody, calls, codec, rw0, pc, req0, req,
                 w, rw, hw, ops, out, finiwg, deferFini, bg, msg, dur, fin, hist>>

\* Module.serveHTTP up to the end of the verdict switch: c.Next() when the
\* init hook declines, when PreRequest fails and on an allow or an invalid
\* verdict; the block or redirect response on a block verdict
GinMiddleware ==
  /\ gin.pc = "serveHTTP"
  /\ gin' = IF gin.gate = "inspect" /\ VerdictKind(gin.code) = "block"
            THEN [GinBlockResponse(gin) EXCEPT !.pc = "followup"]
            ELSE GinNext(gin)
  /\ UNCHANGED <<modvars, inspin, handlerBody, calls, codec, rw0, pc, req0, req,
                 w, rw, hw, ops, out, finiwg, deferFini, bg, msg, dur, fin, hist>>

\* the loop of Next calls an application handler, which writes its response
GinCallHandler ==
  /\ gin.pc = "loop" /\ gin.index < gin.handlers /\ gin.index > 0
  /\ gin' = [GinWrite(GinWriteHeader(gin, 200), GinHandlerBytes) EXCEPT
               !.ran = Append(@, gin.index),
               !.resp = Append(@, [by |-> gin.index, what |-> "Handler"]),
               !.index = @ + 1]
  /\ UNCHANGED <<modvars, inspin, handlerBody, calls, codec, rw0, pc, req0, req,
                 w, rw, hw, ops, out, finiwg, deferFini, bg, msg, dur, fin, hist>>

\* the index is past the chain: the loop ends and Next returns, to
\* serveHTTP when serveHTTP called it and to the engine otherwise
GinNextReturns ==
  /\ gin.pc = "loop" /\ gin.index >= gin.handlers
  /\ gin' = [gin EXCEPT !.depth = @ - 1,
                        !.pc = IF gin.depth = 1 THEN "done"
                               ELSE IF gin.gate = "inspect" THEN "followup"
                               ELSE "return"]
  /\ UNCHANGED <<modvars, inspin, handlerBody, calls, codec, rw0, pc, req0, req,
                 w, rw, hw, ops, out, finiwg, deferFini, bg, msg, dur, fin, hist>>

\* the post-response decision of serveHTTP on c.Writer.Status() and
\* c.Writer.Size()
GinFollowup ==
  /\ gin.pc = "followup"
  /\ \E millis \in ElapsedMillis :
       gin' = [gin EXCEPT !.followup = Followup(gin.reqid, gin.wstatus, gin.wsize,
                                               millis, config),
                         !.pc = "return"]
  /\ UNCHANGED <<modvars, inspin, handlerBody, calls, codec, rw0, pc, req0, req,
                 w, rw, hw, ops, out, finiwg, deferFini, bg, msg, dur, fin, hist>>

\* serveHTTP returns to the loop that called it, which moves the index on
GinMiddlewareReturn ==
  /\ gin.pc = "return"
  /\ gin' = [gin EXCEPT !.index = @ + 1, !.pc = "loop"]
  /\ UNCHANGED <<modvars, inspin, handlerBody, calls, codec, rw0, pc, req0, req,
                 w, rw, hw, ops, out, finiwg, deferFini, bg, msg, dur, fin, hist>>

NextGin ==
  \/ GinServe
  \/ GinCallMiddleware
  \/ GinMiddleware
  \/ GinCallHandler
  \/ GinNextReturns
  \/ GinFollowup
  \/ GinMiddlewareReturn

SpecGin == InitLive /\ [][NextGin]_vars

(***************************************************************************)
(* The client codec: ReadResponseHeader on what the connection delivers   *)
(***************************************************************************)
\* what the decoder finds next on the connection: a msgpack value (an
\* array header of n elements, an unsigned integer n, nil, a string s) or
\* the failure of the read (the stream ended, the deadline passed, another
\* I/O error)
Item(kind, n, s) == [kind |-> kind, n |-> n, s |-> s]

WireItems ==
  {Item("array", n, "") : n \in {3, 4, 5}}
  \cup {Item("uint", n, "") : n \in {0, 1, 2, 7}}
  \cup {Item("nil", 0, ""), Item("str", 0, ""), Item("str", 0, "bad request")}
  \cup {Item(k, 0, "") : k \in {"EOF", "timeout", "io"}}

\* the reads ReadResponseHeader makes at most: the array header, the
\* message type, the sequence id and the error slot
HeaderReads == 4

Wires == SeqsUpTo(WireItems, HeaderReads)

IoEOF == Err("EOF", "EOF")
TimeoutErr == Err("timeout", "i/o timeout")
IoErr == Err("io", "connection reset by peer")
TypeErr == Err("type", "msgp: wrong type")

\* the item at position i of the connection; a connection that delivers
\* nothing more is at its end
WireAt(wire, i) == IF i <= Len(wire) THEN wire[i] ELSE Item("EOF", 0, "")

\* msgp.Reader ReadArrayHeader, ReadUint, ReadNil and ReadString on the
\* item at position i: the value when the item has the type asked for, the
\* error of the connection when the read fails, a type error otherwise
Read(wire, i, kind) ==
  LET it == WireAt(wire, i)
  IN [n |-> IF it.kind = kind THEN it.n ELSE 0,
      s |-> IF it.kind = kind THEN it.s ELSE "",
      err |-> CASE it.kind = kind -> NilErr
                [] it.kind = "EOF" -> IoEOF
                [] it.kind = "timeout" -> TimeoutErr
                [] it.kind = "io" -> IoErr
                [] OTHER -> TypeErr]

\* fmt.Errorf
Errorf(text) == Err("fmt", text)

\* mutant: no error is passed through
knownError_None(err) == NilErr

\* knownError: io.EOF and timeouts are returned as they are, nil for every
\* other error and for nil
knownError(err) ==
  IF err = NilErr THEN NilErr
  ELSE IF err.kind = "EOF" THEN err
  ELSE IF err.kind = "timeout" THEN err
  ELSE NilErr

\* msgpClientCodec.ReadResponseHeader(r): the error returned and r.Seq
ReadResponseHeader(wire, seq0) ==
  LET sz == Read(wire, 1, "array")
      msgtype == Read(wire, 2, "uint")
      seqID == Read(wire, 3, "uint")
      isnil == Read(wire, 4, "nil")
      rawerr == Read(wire, 4, "str")
      Ret(seq, err) == [seq |-> seq, err |-> err]
  IN IF sz.err # NilErr \/ sz.n # 4
     THEN IF knownError(sz.err) # NilErr THEN Ret(seq0, knownError(sz.err))
          ELSE Ret(seq0,
                   Errorf("ReadResponseHeader failed in initial array: "
                          \o (IF sz.err = NilErr
                              THEN "invalid array size " \o Itoa(sz.n)
                              ELSE sz.err.text)))
     ELSE IF msgtype.err # NilErr \/ msgtype.n # 1
     THEN IF knownError(msgtype.err) # NilErr
          THEN Ret(seq0, knownError(msgtype.err))
          ELSE Ret(seq0,
                   Errorf("ReadResponseHeader failed in message type: "
                          \o (IF msgtype.err = NilErr
                              THEN "invalid message type " \o Itoa(msgtype.n)
                              ELSE msgtype.err.text)))
     ELSE IF seqID.err # NilErr
     THEN IF knownError(seqID.err) # NilErr
          THEN Ret(seq0, knownError(seqID.err))
          ELSE Ret(seq0,
                   Errorf("ReadResponseHeader failed in error type: "
                          \o seqID.err.text))
     ELSE IF isnil.err # NilErr
     THEN IF knownError(isnil.err) # NilErr
          THEN Ret(seqID.n, knownError(isnil.err))
          ELSE IF rawerr.err # NilErr
          THEN IF knownError(rawerr.err) # NilErr
               THEN Ret(seqID.n, knownError(rawerr.err))
               ELSE Ret(seqID.n,
                        Errorf("ReadResponseHeader failed in error message: "
                               \o rawerr.err.text))
          ELSE Ret(seqID.n, Errorf("remote error: " \o rawerr.s))
     ELSE Ret(seqID.n, NilErr)

\* the connection delivers the bytes of a response header
CodecReceive ==
  /\ codec.pc = "idle"
  /\ \E wire \in Wires : codec' = [NoCodec EXCEPT !.pc = "ready", !.wire = wire]
  /\ UNCHANGED <<modvars, inspin, handlerBody, calls, gin, rw0, pc, req0, req,
                 w, rw, hw, ops, out, finiwg, deferFini, bg, msg, dur, fin, hist>>

\* the input loop of the rpc.Client calls ReadResponseHeader on a zeroed
\* rpc.Response
CodecReadResponseHeader ==
  /\ codec.pc = "ready"
  /\ LET res == ReadResponseHeader(codec.wire, 0)
     IN codec' = [codec EXCEPT !.pc = "done", !.seq = res.seq, !.err = res.err]
  /\ UNCHANGED <<modvars, inspin, handlerBody, calls, gin, rw0, pc, req0, req,
                 w, rw, hw, ops, out, finiwg, deferFini, bg, msg, dur, fin, hist>>

NextCodec == CodecReceive \/ CodecReadResponseHeader

SpecCodec == Init /\ [][NextCodec]_vars

(***************************************************************************)
(* Two requests served concurrently by one Module: the steps of their     *)
(* ServeHTTP calls and of their goroutines interleave freely              *)
(***************************************************************************)
PairReqs == {"r1", "r2"}

PairRequests == {MkRequest("GET", "/", "", 0, "", "")}

\* replies of the inspector: allow with and without a request id, block,
\* and the failure of the call
PairReplies ==
  {o \in PreRequestReplies :
     /\ o.RequestHeaders = <<>> /\ o.RespActions = <<>>
     /\ \/ o.err
        \/ o.WAFResponse = 200
        \/ o.WAFResponse = 406 /\ o.RequestID = ""}

InitPair ==
  /\ modState = "ready"
  /\ config = NewModuleConfig(HookOptions).c
  /\ initCalls = 1
  /\ module = ModuleOf(config)
  /\ ctor = [NoCtor EXCEPT !.options = HookOptions]
  /\ rpc = NoRPC
  /\ pc = [r \in PairReqs |-> "idle"]
  /\ req0 = [r \in PairReqs |-> NoRequest]
  /\ req = [r \in PairReqs |-> NoRequest]
  /\ w = [r \in PairReqs |-> NewBase]
  /\ rw = [r \in PairReqs |-> NoRecorder]
  /\ hw = [r \in PairReqs |-> "none"]
  /\ ops = [r \in PairReqs |-> 0]
  /\ out = [r \in PairReqs |-> NoReply]
  /\ finiwg = [r \in PairReqs |-> 0]
  /\ deferFini = [r \in PairReqs |-> FALSE]
  /\ bg = [r \in PairReqs |-> NoBackground]
  /\ msg = [r \in PairReqs |-> NoMsg]
  /\ dur = [r \in PairReqs |-> -1]
  /\ fin = [r \in PairReqs |-> "none"]
  /\ hist = [r \in PairReqs |-> <<>>]
  /\ rw0 = [r \in PairReqs |-> RW(NoRecorder, NewBase)]
  /\ inspin = [r \in PairReqs |-> NoMsgIn]
  /\ handlerBody = [r \in PairReqs |-> NotRead]
  /\ calls = [r \in PairReqs |-> <<>>]
  /\ gin = NoGin
  /\ codec = NoCodec

PairServeHTTPBegin(r) == ServeHTTPBeginWith(r, PairRequests)

PairPreRequest(r) == PreRequestCall(r, PairReplies) /\ UNCHANGED iovars

\* the handlers of the two requests call their writer once at most
PairHandlerWriteHeader(r) == ops[r] = 0 /\ HandlerWriteHeader(r)

PairHandlerWrite(r) == ops[r] = 0 /\ HandlerWrite(r)

NextPair ==
  \/ \E r \in PairReqs : PairServeHTTPBegin(r)
  \/ \E r \in PairReqs : PairPreRequest(r)
  \/ \E r \in PairReqs : VerdictDispatch(r)
  \/ \E r \in PairReqs : PairHandlerWriteHeader(r)
  \/ \E r \in PairReqs : PairHandlerWrite(r)
  \/ \E r \in PairReqs : HandlerReturn(r)
  \/ \E r \in PairReqs : PostResponse(r)
  \/ \E r \in PairReqs : ServeHTTPReturn(r)
  \/ \E r \in PairReqs : BackgroundCall(r)
  \/ \E r \in PairReqs : BackgroundReturn(r)
  \/ \E r \in PairReqs : BackgroundDone(r)
  \/ \E r \in PairReqs : FiniWait(r)
  \/ \E r \in PairReqs : FiniCall(r)

SpecPair == InitPair /\ [][NextPair]_vars

(***************************************************************************)
(* Properties                                                             *)
(***************************************************************************)
Has(h, e) == \E i \in DOMAIN h : h[i] = e
Count(h, e) == Cardinality({i \in DOMAIN h : h[i] = e})
\* every e1 of h comes before every e2 of h
Precedes(h, e1, e2) ==
  \A i, j \in DOMAIN h : (h[i] = e1 /\ h[j] = e2) => i < j
\* the post-response decision of the request is behind it (or was skipped)
Decided(r) == pc[r] \in {"ret", "returned"}
\* PreRequest was called and returned no error
PreOK(r) == Has(hist[r], "PreRequest") /\ ~out[r].err
\* the calls of a follow-up RPC in a history
FollowupCalls(h) == {i \in DOMAIN h : h[i] \in {"UpdateCall", "PostCall"}}
\* the response of the request is complete in a history
ResponseDone(h, i) == h[i] \in {"HandlerRet", "Block", "Redirect"}

\* C1: per request at most one follow-up RPC is dispatched, only after the
\* response was written (the handler returned or the block/redirect response
\* was produced); it is UpdateRequest exactly when PreRequest succeeded and
\* returned a non-empty request id, whatever the status, size or duration;
\* UpdateRequest and PostRequest are never both sent
C1_FollowupSelection ==
  \A r \in Reqs :
    LET h == hist[r] IN
    /\ Cardinality(FollowupCalls(h)) <= 1
    /\ ~Decided(r) => bg[r].kind = "none"
    /\ Decided(r) =>
         ((bg[r].kind = "Update") <=> (PreOK(r) /\ out[r].RequestID # ""))
    /\ bg[r].kind # "none" =>
         \E i \in DOMAIN h :
           ResponseDone(h, i) /\ \A j \in FollowupCalls(h) : i < j
    /\ Has(h, "UpdateCall") => bg[r].kind = "Update"
    /\ Has(h, "PostCall") => bg[r].kind = "Post"

\* an UpdateRequest call for a response that is no anomaly at all
C1_Witness ==
  \E r \in Reqs :
    /\ Has(hist[r], "UpdateCall")
    /\ out[r].RequestID # ""
    /\ rw[r].code = 200 /\ rw[r].size = 0 /\ dur[r] < config.anomalyDuration

\* C2: when PreRequest returns an error the downstream handler is invoked
\* exactly once, with the original writer (no recorder is made), and neither
\* UpdateRequest nor PostRequest is dispatched
C2_FailOpenOnPreRequestError ==
  \A r \in Reqs :
    out[r].err =>
      /\ Count(hist[r], "Handler") = 1
      /\ hw[r] = "orig"
      /\ rw[r] = NoRecorder
      /\ bg[r].kind = "none" /\ finiwg[r] = 0
      /\ FollowupCalls(hist[r]) = {}
      /\ ~Has(hist[r], "Block") /\ ~Has(hist[r], "Redirect")

\* a request that failed open, whose handler wrote a 3xx response on the
\* original writer and whose ServeHTTP has returned
C2_Witness ==
  \E r \in Reqs :
    /\ out[r].err /\ pc[r] = "returned"
    /\ w[r].status = 300 /\ w[r].size > 0

\* C3: a verdict in [300, 599] for which no redirect applies (not a 3xx
\* verdict with a non-empty X-Sigsci-Redirect) gives a response whose status
\* is the verdict, for every method, and the handler is never invoked
C3_BlockStatusIsVerdict ==
  \A r \in Reqs :
    LET v == out[r].WAFResponse
        redirect == HeaderGet(req[r].Header, "X-Sigsci-Redirect")
    IN (/\ PreOK(r) /\ pc[r] \notin {"pre", "dispatch"}
        /\ v >= 300 /\ v <= 599
        /\ ~(v <= 399 /\ redirect # ""))
       => /\ w[r].status = v
          /\ rw[r].code = v
          /\ w[r].sent["Location"] = <<>>
          /\ ~Has(hist[r], "Handler")
          /\ hw[r] = "none"

\* a CONNECT request blocked with 599, and a request with a body blocked
C3_Witness ==
  \E r \in Reqs :
    /\ PreOK(r) /\ pc[r] = "returned"
    /\ out[r].WAFResponse = 599 /\ w[r].status = 599
    /\ req[r].Method = "CONNECT"

\* the redirect targets http.Redirect leaves as they are: absolute URLs and
\* rooted paths in cleaned form
ResolvedTargets == {"/login", "/evil", "https://example.net/login"}

\* C4 as stated: for a verdict in [300, 399] and a non-empty
\* X-Sigsci-Redirect after header propagation, the response is a redirect
\* with the verdict as status and that header value as Location, and the
\* handler is not invoked; a verdict in [400, 599] never redirects
C4_RedirectLocationIsHeaderValue ==
  \A r \in Reqs :
    LET v == out[r].WAFResponse
        redirect == HeaderGet(req[r].Header, "X-Sigsci-Redirect")
    IN (PreOK(r) /\ pc[r] \notin {"pre", "dispatch"}) =>
         /\ (v >= 300 /\ v <= 399 /\ redirect # "") =>
               /\ w[r].status = v
               /\ w[r].sent["Location"] = <<redirect>>
               /\ ~Has(hist[r], "Handler")
         /\ (v >= 400 /\ v <= 599) => w[r].sent["Location"] = <<>>

\* C4 (amended): as above, but the Location is the header value as
\* http.Redirect resolves it: the value itself when it is an absolute URL or
\* a rooted path in cleaned form, and otherwise the value joined to the
\* directory of the request path
C4_RedirectLocationResolved ==
  \A r \in Reqs :
    LET v == out[r].WAFResponse
        redirect == HeaderGet(req[r].Header, "X-Sigsci-Redirect")
    IN (PreOK(r) /\ pc[r] \notin {"pre", "dispatch"}) =>
         /\ (v >= 300 /\ v <= 399 /\ redirect # "") =>
               /\ w[r].status = v
               /\ w[r].sent["Location"] =
                    <<IF redirect \in ResolvedTargets THEN redirect
                      ELSE PathDir(req[r].Path) \o redirect>>
               /\ ~Has(hist[r], "Handler")
               /\ hw[r] = "none"
         /\ (v >= 400 /\ v <= 599) =>
               /\ w[r].sent["Location"] = <<>>
               /\ ~Has(hist[r], "Redirect")

\* a 399 redirect to the relative target the agent supplied, resolved
\* against the request path /a/b
C4_Witness ==
  \E r \in Reqs :
    /\ PreOK(r) /\ pc[r] = "returned"
    /\ out[r].WAFResponse = 399
    /\ HeaderGet(req[r].Header, "X-Sigsci-Redirect") = "login"
    /\ req[r].Path = "/a/b"
    /\ w[r].status = 399 /\ w[r].sent["Location"] = <<"/a/login">>

\* C5: a verdict that is neither 200 nor in [300, 599] fails open: the
\* handler is invoked exactly once, on the recording writer, and the module
\* produces no block or redirect response
C5_UnknownVerdictFailsOpen ==
  \A r \in Reqs :
    LET v == out[r].WAFResponse IN
    (/\ PreOK(r) /\ pc[r] \notin {"pre", "dispatch"}
     /\ v # 200 /\ ~(v >= 300 /\ v <= 599))
    => /\ Count(hist[r], "Handler") = 1
       /\ hw[r] = "rec"
       /\ ~Has(hist[r], "Block") /\ ~Has(hist[r], "Redirect")
       /\ w[r].sent["Location"] = <<>>
       /\ (w[r].status # 0 => ops[r] > 0)

\* verdicts 299 and 600 with the handler's own response delivered
C5_Witness ==
  \E r \in Reqs :
    /\ PreOK(r) /\ pc[r] = "returned"
    /\ out[r].WAFResponse = 299
    /\ Has(hist[r], "HandlerRet")
    /\ w[r].status = 300 /\ rw[r].code = 300 /\ rw[r].size = 15

\* C6: when the configured init hook returns false the handler is invoked
\* exactly once with the original writer, PreRequest is never called, no
\* follow-up RPC is dispatched, the fini hook is not invoked and not
\* scheduled, and the request (headers and body) is as it arrived
C6_InitFalseBypasses ==
  \A r \in Reqs :
    Has(hist[r], "InitFalse") =>
      /\ config.inspInit
      /\ Count(hist[r], "Handler") = 1
      /\ hw[r] = "orig"
      /\ rw[r] = NoRecorder
      /\ ~Has(hist[r], "PreRequest")
      /\ bg[r].kind = "none" /\ FollowupCalls(hist[r]) = {}
      /\ ~deferFini[r] /\ fin[r] = "none" /\ ~Has(hist[r], "Fini")
      /\ req[r] = req0[r]

\* a bypassed request with an inspectable body, under a configured fini
\* hook, after ServeHTTP returned
C6_Witness ==
  \E r \in Reqs :
    /\ Has(hist[r], "InitFalse") /\ pc[r] = "returned"
    /\ config.inspFini
    /\ req[r].Body.reader = "orig"
    /\ w[r].status # 0

\* the returns of a follow-up RPC in a history
FollowupReturns(h) == {i \in DOMAIN h : h[i] \in {"UpdateRet", "PostRet"}}

\* C7: with a fini hook configured, in every interleaving of the foreground
\* task and the background RPC task the fini hook is invoked only after the
\* request's UpdateRequest/PostRequest call (if any) has returned
C7_FiniAfterBackgroundRPC ==
  \A r \in Reqs :
    LET h == hist[r] IN
    /\ fin[r] \in {"woken", "called"} =>
         /\ pc[r] = "returned"
         /\ bg[r].pc \in {"none", "done"}
         /\ Cardinality(FollowupReturns(h)) = Cardinality(FollowupCalls(h))
         /\ bg[r].kind # "none" => FollowupReturns(h) # {}
    /\ \A i \in DOMAIN h :
         h[i] = "Fini" =>
           /\ \A j \in FollowupCalls(h) \cup FollowupReturns(h) : j < i
           /\ fin[r] = "called" /\ config.inspFini

\* the fini hook ran after a PostRequest call that started before ServeHTTP
\* returned and ended after it
C7_Witness ==
  \E r \in Reqs :
    LET h == hist[r] IN
    /\ fin[r] = "called" /\ bg[r].kind = "Post" /\ bg[r].pc = "done"
    /\ \E i, j, k, l \in DOMAIN h :
         /\ i < j /\ j < k /\ k < l
         /\ h[i] = "PostCall" /\ h[j] = "Return"
         /\ h[k] = "PostRet" /\ h[l] = "Fini"

\* C8: after a successful PreRequest without request id, PostRequest is
\* dispatched exactly when the recorded status is >= 300, or the bytes
\* written are >= AnomalySize, or the elapsed time is >= AnomalyDuration;
\* otherwise no follow-up RPC is dispatched
C8_PostIffAnomaly ==
  \A r \in Reqs :
    (PreOK(r) /\ out[r].RequestID = "" /\ Decided(r)) =>
      LET anomaly == \/ rw[r].code >= 300
                     \/ rw[r].size >= config.anomalySize
                     \/ dur[r] >= config.anomalyDuration
      IN /\ dur[r] \in ElapsedMillis
         /\ anomaly => bg[r].kind = "Post"
         /\ ~anomaly => (bg[r].kind = "none" /\ finiwg[r] = 0
                          /\ FollowupCalls(hist[r]) = {})

\* a PostRequest dispatched for the size alone, exactly at the threshold
C8_Witness ==
  \E r \in Reqs :
    /\ PreOK(r) /\ out[r].RequestID = "" /\ Decided(r)
    /\ rw[r].code < 300 /\ rw[r].size = config.anomalySize
    /\ dur[r] < config.anomalyDuration
    /\ Has(hist[r], "PostCall")

\* C9 as stated: after a 406 block without request id no background RPC is
\* dispatched
C9_NoFollowupAfter406Block ==
  \A r \in Reqs :
    (PreOK(r) /\ out[r].WAFResponse = 406 /\ out[r].RequestID = "") =>
      (bg[r].kind = "none" /\ FollowupCalls(hist[r]) = {})

\* C9 (amended): after a 406 block without request id exactly one
\* PostRequest, reporting response code 406, is dispatched once the block
\* response is written, and no UpdateRequest
C9_PostAfter406Block ==
  \A r \in Reqs :
    (/\ PreOK(r) /\ out[r].WAFResponse = 406 /\ out[r].RequestID = ""
     /\ Decided(r))
    => /\ bg[r].kind = "Post"
       /\ msg[r].ResponseCode = 406 /\ msg[r].WAFResponse = 406
       /\ Has(hist[r], "Block")
       /\ Precedes(hist[r], "Block", "PostCall")
       /\ Count(hist[r], "PostCall") <= 1
       /\ ~Has(hist[r], "UpdateCall")

\* the PostRequest of a 406 block has been called, for a fast response
C9_Witness ==
  \E r \in Reqs :
    /\ PreOK(r) /\ out[r].WAFResponse = 406 /\ out[r].RequestID = ""
    /\ w[r].status = 406
    /\ dur[r] < config.anomalyDuration /\ rw[r].size < config.anomalySize
    /\ Has(hist[r], "PostCall")

\* C10: ModuleInit is called (once, in NewModule) before any request is
\* served; within a request PreRequest returns before the handler starts and
\* the handler (or the block response) is finished before the at most one
\* UpdateRequest or PostRequest call starts
C10_InspectorCallOrder ==
  /\ modState = "none" => \A r \in Reqs : hist[r] = <<>> /\ pc[r] = "idle"
  /\ \A r \in Reqs :
       LET h == hist[r] IN
       /\ Has(h, "PreRequest") => initCalls = 1
       /\ Count(h, "PreRequest") <= 1
       /\ Precedes(h, "PreRequest", "Handler")
       /\ Precedes(h, "Handler", "HandlerRet")
       /\ Cardinality(FollowupCalls(h)) <= 1
       /\ \A j \in FollowupCalls(h) :
            /\ \E i \in DOMAIN h : i < j /\ h[i] = "PreRequest"
            /\ \E i \in DOMAIN h : i < j /\ ResponseDone(h, i)
            /\ Count(h, "Handler") = Count(h, "HandlerRet")

\* a full transaction: PreRequest, handler, then the UpdateRequest call
C10_Witness ==
  \E r \in Reqs :
    LET h == hist[r] IN
    /\ initCalls = 1
    /\ \E i, j, k, l \in DOMAIN h :
         /\ i < j /\ j < k /\ k < l
         /\ h[i] = "PreRequest" /\ h[j] = "Handler"
         /\ h[k] = "HandlerRet" /\ h[l] = "UpdateCall"


\* C11: ServeHTTP waits neither for the follow-up RPC nor for the fini hook:
\* once the response is written and the follow-up is decided, its return is
\* enabled whatever the state of the background RPC and of the finalizer
C11_ReturnNeverWaits ==
  \A r \in Reqs : pc[r] = "ret" => ENABLED ServeHTTPReturn(r)

\* ServeHTTP has returned with a finalizer configured while the dispatched
\* follow-up call is still outstanding and the finalizer has not run
C11_Witness ==
  \E r \in Reqs :
    /\ pc[r] = "returned"
    /\ bg[r].kind \in {"Update", "Post"} /\ bg[r].pc \in {"spawned", "calling"}
    /\ finiwg[r] = 1 /\ fin[r] = "waiting"
    /\ w[r].status # 0

\* the values the agent's RequestHeaders list supplies for header k, in list
\* order
AgentValues(kvs, k) ==
  LET named == SelectSeq(kvs, LAMBDA kv : CanonicalHeaderKey(kv[1]) = k)
  IN [i \in 1..Len(named) |-> named[i][2]]

\* PreRequest succeeded and its header propagation is done
Propagated(r) == PreOK(r) /\ pc[r] # "pre"

\* C12 as stated: after a successful PreRequest the request carries exactly
\* one X-Sigsci-Agentresponse value, the decimal verdict code
C12_AgentresponseIsVerdict ==
  \A r \in Reqs :
    Propagated(r) =>
      req[r].Header["X-Sigsci-Agentresponse"] = <<Itoa(out[r].WAFResponse)>>

\* C12 (amended): the request carries exactly one X-Sigsci-Agentresponse
\* value, whatever the client supplied; it is the decimal verdict code unless
\* the agent's RequestHeaders list names X-Sigsci-Agentresponse itself, and
\* then it is the value of the last such entry
C12_AgentresponseSingleValue ==
  \A r \in Reqs :
    Propagated(r) =>
      LET listed == AgentValues(out[r].RequestHeaders, "X-Sigsci-Agentresponse")
      IN req[r].Header["X-Sigsci-Agentresponse"] =
           <<IF listed = <<>> THEN Itoa(out[r].WAFResponse)
             ELSE listed[Len(listed)]>>

\* a 406 verdict replaced the value 200 the client had supplied
C12_Witness ==
  \E r \in Reqs :
    /\ Propagated(r)
    /\ req0[r].Header["X-Sigsci-Agentresponse"] = <<"200">>
    /\ out[r].WAFResponse = 406
    /\ req[r].Header["X-Sigsci-Agentresponse"] = <<"406">>

\* C13 as stated: after a successful PreRequest the request carries
\* X-Sigsci-Requestid exactly when the agent issued a non-empty request id,
\* and then its single value is that id
C13_RequestidIffIssued ==
  \A r \in Reqs :
    Propagated(r) =>
      req[r].Header["X-Sigsci-Requestid"] =
        IF out[r].RequestID # "" THEN <<out[r].RequestID>> ELSE <<>>

\* C13 (amended): as stated when the agent's RequestHeaders list does not
\* name X-Sigsci-Requestid; when it does, the request carries the value of
\* the last such entry as its single value; the value the client supplied
\* never survives
C13_RequestidFromAgentOnly ==
  \A r \in Reqs :
    Propagated(r) =>
      LET listed == AgentValues(out[r].RequestHeaders, "X-Sigsci-Requestid")
      IN /\ req[r].Header["X-Sigsci-Requestid"] =
              IF listed # <<>> THEN <<listed[Len(listed)]>>
              ELSE IF out[r].RequestID # "" THEN <<out[r].RequestID>>
              ELSE <<>>
         /\ \A i \in DOMAIN req[r].Header["X-Sigsci-Requestid"] :
              req[r].Header["X-Sigsci-Requestid"][i] # "forged"

\* the agent issued no id and the forged X-Sigsci-Requestid of the client
\* is gone when the handler runs
C13_Witness ==
  \E r \in Reqs :
    /\ Propagated(r) /\ pc[r] = "handler"
    /\ req0[r].Header["X-Sigsci-Requestid"] = <<"forged">>
    /\ out[r].RequestID = "" /\ out[r].RequestHeaders = <<>>
    /\ req[r].Header["X-Sigsci-Requestid"] = <<>>

\* the values a client can supply for X-Sigsci-Tags and X-Sigsci-Redirect
ClientTagValues == {<<>>, <<"SQLI">>, <<"SQLI", "XSS">>}
ClientRedirectValues == {<<>>, <<"/evil">>, <<"/login">>}

\* the requests that differ from rq at most in the client-supplied values of
\* X-Sigsci-Tags and X-Sigsci-Redirect
ClientVariants(rq) ==
  {[rq EXCEPT !.Header = [@ EXCEPT !["X-Sigsci-Tags"] = t,
                                   !["X-Sigsci-Redirect"] = d]] :
     t \in ClientTagValues, d \in ClientRedirectValues}

\* C14: a request that differs from the one served only in the client's
\* X-Sigsci-Tags and X-Sigsci-Redirect values, with the same PreRequest
\* reply, gives the handler the same request headers, the same decision
\* between redirect and block, and the same response (status, headers sent,
\* Location, size) as the one served
C14_ClientHeadersNoInfluence ==
  \A r \in Reqs :
    Propagated(r) =>
      \A rq2 \in ClientVariants(req0[r]) :
        LET o == out[r]
            v == o.WAFResponse
            rq2p == AfterPreRequest(rq2, o, config)
        IN /\ rq2p.Header = req[r].Header
           /\ (IsBlockCode(v) /\ pc[r] \in {"post", "ret", "returned"}) =>
                /\ BlockResponse(RW(NewResponseWriter(NewBase), NewBase), rq2p, v)
                     = RW(rw[r], w[r])
                /\ RedirectApplies(v, HeaderGet(rq2p.Header, "X-Sigsci-Redirect"))
                     <=> Has(hist[r], "Redirect")

\* the client sent X-Sigsci-Redirect and X-Sigsci-Tags, the agent answered
\* 399 without a redirect header: the response is the plain block, and
\* neither client value is on the request
C14_Witness ==
  \E r \in Reqs :
    /\ Propagated(r) /\ pc[r] = "returned"
    /\ req0[r].Header["X-Sigsci-Redirect"] = <<"/evil">>
    /\ req0[r].Header["X-Sigsci-Tags"] = <<"SQLI">>
    /\ out[r].WAFResponse = 399 /\ out[r].RequestHeaders = <<>>
    /\ w[r].status = 399 /\ w[r].sent["Location"] = <<>>
    /\ req[r].Header["X-Sigsci-Redirect"] = <<>>
    /\ req[r].Header["X-Sigsci-Tags"] = <<>>

\* the canonical header names the agent's list names
NamedHeaders(kvs) == {CanonicalHeaderKey(kvs[i][1]) : i \in DOMAIN kvs}

\* C15 as stated: after PreRequest, an X-Sigsci- header the agent's list
\* names holds exactly the values the list supplies for it, also when the
\* list has several entries for the name; for any other name the agent's
\* values follow, in list order, the values already on the request
C15_AgentHeadersAllValues ==
  \A r \in Reqs :
    Propagated(r) =>
      \A k \in NamedHeaders(out[r].RequestHeaders) :
        req[r].Header[k] =
          IF HasSigsciPrefix(k) THEN AgentValues(out[r].RequestHeaders, k)
          ELSE req0[r].Header[k] \o AgentValues(out[r].RequestHeaders, k)

\* C15 (amended): an X-Sigsci- header the agent's list names holds exactly
\* one value, that of the last entry of the list with that name; for any
\* other name the agent's values follow, in list order, the values already
\* on the request
C15_AgentHeadersLastValue ==
  \A r \in Reqs :
    Propagated(r) =>
      \A k \in NamedHeaders(out[r].RequestHeaders) :
        LET listed == AgentValues(out[r].RequestHeaders, k)
        IN req[r].Header[k] =
             IF HasSigsciPrefix(k) THEN <<listed[Len(listed)]>>
             ELSE req0[r].Header[k] \o listed

\* two entries for X-Sigsci-Redirect (the second in lower case) left the
\* value of the second on a request whose client had sent the header too
C15_Witness ==
  \E r \in Reqs :
    /\ Propagated(r)
    /\ req0[r].Header["X-Sigsci-Redirect"] = <<"/evil">>
    /\ out[r].RequestHeaders =
         << <<"X-Sigsci-Redirect", "/login">>, <<"x-sigsci-redirect", "login">> >>
    /\ req[r].Header["X-Sigsci-Redirect"] = <<"login">>

\* the WriteHeader and Write calls in a log of calls
Writes(h) == {i \in DOMAIN h : h[i].op \in {"WriteHeader", "Write"}}

\* C16: on a recorder made with a list of header actions, the whole list is
\* applied exactly once, at the first WriteHeader or Write: before it the
\* headers and the list are as they were made, after it (and after any
\* number of later calls) the headers are the made ones with the list
\* applied once and the recorder holds no action
C16_ActionsAppliedOnce ==
  \A r \in Reqs :
    IF Writes(hist[r]) = {}
    THEN /\ rw[r].actions = rw0[r].rec.actions
         /\ w[r].hdr = rw0[r].base.hdr
    ELSE /\ rw[r].actions = <<>>
         /\ w[r].hdr = ApplyActions(rw0[r].base.hdr, rw0[r].rec.actions)

\* two calls after a list with an Add was given: the value was added once
C16_Witness ==
  \E r \in Reqs :
    /\ rw0[r].rec.actions = <<Action("AddHdr", <<"x-custom", "a">>)>>
    /\ rw0[r].base.hdr["X-Custom"] = <<"b">>
    /\ Cardinality(Writes(hist[r])) = 2
    /\ w[r].hdr["X-Custom"] = <<"b", "a">>

\* the response headers ServeHTTP sets itself when it blocks
ModuleResponseNames == {"Content-Type", "X-Content-Type-Options", "Location"}

\* C17 as stated: for a request that is allowed or blocked, the recorder is
\* made with the response-header actions of the PreRequest reply, and once
\* the response header was written the headers the client receives are the
\* ones these actions yield
C17_RecorderHoldsAgentActions ==
  \A r \in Reqs :
    (/\ PreOK(r) /\ pc[r] \notin {"start", "pre"}
     /\ VerdictKind(out[r].WAFResponse) \in {"allow", "block"}) =>
      /\ rw0[r].rec.actions = out[r].RespActions
      /\ w[r].status # 0 =>
           \A k \in HeaderNames \ ModuleResponseNames :
             w[r].sent[k] = ApplyActions(EmptyHeader, out[r].RespActions)[k]

\* the values of the header name k after the actions, by the stated
\* semantics: actions on other names (up to case) leave them, Add appends,
\* Set replaces, SetIfAbsent sets when there is no non-empty first value,
\* Del removes
RECURSIVE FoldedValues(_, _, _)
FoldedValues(vals, as, k) ==
  IF as = <<>> THEN vals
  ELSE LET a == Head(as)
           next ==
             IF CanonicalHeaderKey(a.Args[1]) # k THEN vals
             ELSE CASE a.Code = "AddHdr" -> Append(vals, a.Args[2])
                    [] a.Code = "SetHdr" -> <<a.Args[2]>>
                    [] a.Code = "SetNEHdr" ->
                         IF vals # <<>> /\ vals[1] # "" THEN vals
                         ELSE <<a.Args[2]>>
                    [] a.Code = "DelHdr" -> <<>>
       IN FoldedValues(next, Tail(as), k)

\* C18: once the action list was applied, every header name holds the
\* values that folding the list in order yields from the values it had:
\* Add appends, Set replaces, SetIfAbsent sets only without a non-empty
\* first value, Del removes, the last action on a name wins and names
\* match without regard to case
C18_ActionsFoldInOrder ==
  \A r \in Reqs :
    Writes(hist[r]) # {} =>
      \A k \in HeaderNames :
        w[r].hdr[k] =
          FoldedValues(rw0[r].base.hdr[k], rw0[r].rec.actions, k)

\* Set of X-Custom followed by Del of x-custom, applied at a write, leaves
\* the header absent
C18_Witness ==
  \E r \in Reqs :
    /\ rw0[r].rec.actions = <<Action("SetHdr", <<"X-Custom", "s">>),
                              Action("DelHdr", <<"x-custom">>)>>
    /\ rw0[r].base.hdr["X-Custom"] = <<"b">>
    /\ Writes(hist[r]) # {}
    /\ w[r].hdr["X-Custom"] = <<>>
    /\ w[r].hdr["Content-Type"] = <<"text/plain">>

\* the WriteHeader and Write calls of a log, in order
WriteCalls(h) == SelectSeq(h, LAMBDA c : c.op # "Flush")
\* the status these calls put on the wire: the first call decides
WireStatus(cs) ==
  IF cs # <<>> /\ cs[1].op = "WriteHeader" THEN cs[1].arg ELSE 200
\* the status of the last WriteHeader call, 200 without one
RECURSIVE LastStatus(_)
LastStatus(cs) ==
  IF cs = <<>> THEN 200
  ELSE IF cs[Len(cs)].op = "WriteHeader" THEN cs[Len(cs)].arg
       ELSE LastStatus(SubSeq(cs, 1, Len(cs) - 1))
\* the bytes of the Write calls
RECURSIVE BytesOf(_)
BytesOf(cs) ==
  IF cs = <<>> THEN 0
  ELSE (IF Head(cs).op = "Write" THEN Head(cs).arg ELSE 0) + BytesOf(Tail(cs))
\* the bytes of the Write and ReadFrom calls
RECURSIVE BodyBytes(_)
BodyBytes(cs) ==
  IF cs = <<>> THEN 0
  ELSE (IF Head(cs).op \in {"Write", "ReadFrom"} THEN Head(cs).arg ELSE 0)
       + BodyBytes(Tail(cs))
\* the status the client gets from a base: 200 when none was written
SentStatus(b) == IF b.status = 0 THEN 200 ELSE b.status
\* the handler flushed before its first WriteHeader, Write or ReadFrom
FlushedFirst(h) == h # <<>> /\ h[1].op = "Flush"

\* the writer has Flush iff the base has, a handler that flushes when the
\* writer has Flush can and does flush the base iff the base is a flusher,
\* and body bytes, BytesWritten and StatusCode are what the WriteHeader and
\* Write calls alone determine
FlushVariantTracksBase(r) ==
  /\ rw[r].flusher <=> "Flusher" \in w[r].caps
  /\ ops[r] < MaxHandlerOps =>
       (ENABLED CallFlush(r) <=> "Flusher" \in w[r].caps)
  /\ w[r].flushed <=>
       ("Flusher" \in w[r].caps /\ \E i \in DOMAIN hist[r] : hist[r][i].op = "Flush")
  /\ w[r].size = BodyBytes(WriteCalls(hist[r]))
  /\ rw[r].size = BytesOf(WriteCalls(hist[r]))
  /\ rw[r].code = LastStatus(WriteCalls(hist[r]))

\* C19 as stated: the flusher variant is returned exactly for a flusher
\* base, the handler's flush reaches the base exactly then, and the status
\* sent, the body bytes and BytesWritten are those of the WriteHeader and
\* Write calls, whether or not the handler could flush
C19_SameResponseInBothVariants ==
  \A r \in Reqs :
    /\ FlushVariantTracksBase(r)
    /\ SentStatus(w[r]) = WireStatus(WriteCalls(hist[r]))

\* C19 (amended): as stated, except that the status sent is that of the
\* WriteHeader and Write calls only when the handler did not flush before
\* the first of them; a flush before them sends status 200
C19_SameResponseUnlessFlushedFirst ==
  \A r \in Reqs :
    /\ FlushVariantTracksBase(r)
    /\ SentStatus(w[r]) =
         IF FlushedFirst(hist[r]) THEN 200
         ELSE WireStatus(WriteCalls(hist[r]))

\* on a flusher base the handler wrote a header and flushed: the base was
\* flushed and the status is the handler's
C19_Witness ==
  \E r \in Reqs :
    /\ "Flusher" \in w[r].caps
    /\ hist[r] = <<Call("WriteHeader", 299), Call("Flush", 0)>>
    /\ w[r].flushed /\ w[r].status = 299 /\ rw[r].code = 299

\* C20 as stated: the writer satisfies each of hijack, flush, read-from and
\* close-notify exactly when the base does
C20_CapabilitiesExactlyAsBase ==
  \A r \in Reqs : \A cap \in Capabilities :
    Satisfies(rw[r], cap) <=> cap \in w[r].caps

\* C20 (amended): the writer satisfies flush exactly when the base does,
\* and satisfies hijack, read-from and close-notify whether or not the base
\* does
C20_OnlyFlushAsBase ==
  \A r \in Reqs :
    /\ Satisfies(rw[r], "Flusher") <=> "Flusher" \in w[r].caps
    /\ \A cap \in Capabilities \ {"Flusher"} : Satisfies(rw[r], cap)

\* a handler wrote through the writer made for a base that only reads
\* from: the writer is a hijacker and close-notifier, and no flusher
C20_Witness ==
  \E r \in Reqs :
    /\ w[r].caps = {"ReaderFrom"}
    /\ Writes(hist[r]) # {}
    /\ Satisfies(rw[r], "Hijacker") /\ Satisfies(rw[r], "CloseNotifier")
    /\ ~Satisfies(rw[r], "Flusher")

\* the request body was buffered by inspectorPreRequest
Buffered(r) == req[r].Body.reader = "buffer"

\* the content type families that are inspected
InspectedFamilies ==
  {"form", "multipart", "json", "javascript", "textxml", "appxml", "plusxml",
   "grpc", "graphql"}

\* the stated predicate of the body-read gate on a request as it came in
GatePredicate(rq, cfg) ==
  LET vals == rq.Header["Content-Type"]
      ct == IF vals = <<>> THEN "" ELSE vals[1]
  IN /\ rq.Body.reader # "nil"
     /\ \/ 0 < rq.ContentLength /\ rq.ContentLength <= cfg.maxContentLength
        \/ rq.ContentLength = -1 /\ cfg.allowUnknownContentLength
     /\ \/ ContentTypeProps(ct) \cap InspectedFamilies # {}
        \/ ct = ""
        \/ cfg.extendContentTypes
        \/ ct \in cfg.expectedContentTypes
        \/ Len(vals) > 1
        \/ "comma" \in ContentTypeProps(ct)

\* C21: the body is buffered exactly when a body reader exists, the content
\* length is in (0, MaxContentLength] or is -1 with unknown lengths
\* allowed, and the content type is of an inspected family, empty,
\* permitted by the configuration, multi-valued or comma-separated
C21_GateIsThePredicate ==
  \A r \in Reqs :
    pc[r] # "pre" => (Buffered(r) <=> GatePredicate(req0[r], config))

\* a JSON body of exactly MaxContentLength bytes was buffered
C21_Witness ==
  \E r \in Reqs :
    /\ pc[r] # "pre"
    /\ req0[r].ContentLength = config.maxContentLength
    /\ req0[r].Header["Content-Type"] = <<"application/json">>
    /\ ~config.extendContentTypes /\ ~config.allowUnknownContentLength
    /\ Buffered(r)

\* C22 as stated: whenever the body was buffered, the bytes buffered and
\* sent as PostBody are at most MaxContentLength
C22_BufferedAtMostMax ==
  \A r \in Reqs :
    Buffered(r) => Len(inspin[r].PostBody) <= config.maxContentLength

\* C22 (amended): a buffered body of declared length is at most
\* MaxContentLength bytes; a body of unknown length, buffered when unknown
\* lengths are allowed, is buffered whole
C22_BufferedAtMostMaxIfLengthKnown ==
  \A r \in Reqs :
    Buffered(r) =>
      IF req0[r].ContentLength # -1
      THEN Len(inspin[r].PostBody) <= config.maxContentLength
      ELSE /\ config.allowUnknownContentLength
           /\ inspin[r].PostBody = req0[r].Body.data

\* a body of exactly MaxContentLength bytes was buffered and sent
C22_Witness ==
  \E r \in Reqs :
    /\ Buffered(r)
    /\ req0[r].ContentLength = config.maxContentLength
    /\ Len(inspin[r].PostBody) = config.maxContentLength

\* C23: for a request with a 200 verdict the handler is invoked exactly
\* once, the bytes it reads from the request body are the bytes the body
\* held when the request came in, buffered or not, and a buffered body is
\* sent to the agent as PostBody with the same bytes
C23_HandlerReadsOriginalBody ==
  \A r \in Reqs :
    (PreOK(r) /\ out[r].WAFResponse = 200 /\ pc[r] = "handler") =>
      /\ Count(hist[r], "Handler") = 1
      /\ handlerBody[r].read => handlerBody[r].data = ReadAll(req0[r].Body)
      /\ Buffered(r) => inspin[r].PostBody = ReadAll(req0[r].Body)

\* the handler read a buffered body of two bytes that was also sent to the
\* agent
C23_Witness ==
  \E r \in Reqs :
    /\ PreOK(r) /\ out[r].WAFResponse = 200
    /\ Buffered(r)
    /\ handlerBody[r].read
    /\ handlerBody[r].data = Blob(2)
    /\ inspin[r].PostBody = Blob(2)

\* C24 as stated: the message built for PreRequest carries -1 in each of
\* ResponseCode, ResponseMillis and ResponseSize
C24_PreRequestMarkersUnknown ==
  \A r \in Reqs :
    pc[r] # "pre" =>
      /\ inspin[r].ResponseCode = -1
      /\ inspin[r].ResponseMillis = -1
      /\ inspin[r].ResponseSize = -1

\* the values a list of name/value pairs holds for a name, in order
PairValues(kvs, k) ==
  LET sel == SelectSeq(kvs, LAMBDA p : p[1] = k)
  IN [i \in 1..Len(sel) |-> sel[i][2]]

\* HeadersIn holds the values of every header name of the request in their
\* order, with ("Host", host) as its first entry when the request has a
\* host and no Host entry otherwise
HeadersInOfRequest(m, rq) ==
  /\ \A k \in HeaderNames : PairValues(m.HeadersIn, k) = rq.Header[k]
  /\ rq.Host # "" =>
       m.HeadersIn # <<>> /\ m.HeadersIn[1] = <<"Host", rq.Host>>
  /\ rq.Host = "" => PairValues(m.HeadersIn, "Host") = <<>>

\* C25 as stated: the header list sent to the agent holds every name/value
\* pair of the inbound request, duplicates in per-name order, after a first
\* entry ("Host", host) that is there exactly when Host is not empty
C25_HeadersInFromRequest ==
  \A r \in Reqs : pc[r] # "pre" => HeadersInOfRequest(inspin[r], req0[r])

\* C25 (amended): the same, unless a raw header extractor is configured
\* and returns a list, which is then the list sent
C25_HeadersInFromRequestOrExtractor ==
  \A r \in Reqs :
    pc[r] # "pre" =>
      IF config.rawHeaderExtractor = "list"
      THEN inspin[r].HeadersIn = ExtractedHeaders
      ELSE HeadersInOfRequest(inspin[r], req0[r])

\* a request with a host and two X-Custom values: Host is first and the
\* two values follow each other in their order, after Content-Type
C25_Witness ==
  \E r \in Reqs :
    /\ pc[r] # "pre"
    /\ inspin[r].HeadersIn =
         << <<"Host", "example.com">>, <<"Content-Type", "application/json">>,
            <<"X-Custom", "c0">>, <<"X-Custom", "c1">> >>

\* the codes an agent can answer with, classified by the claims
MaxVerdictCode == 700
VerdictCodes == (0 - 1)..MaxVerdictCode

Range(f) == {f[i] : i \in DOMAIN f}

\* C26: whatever the options the configuration was built or later changed
\* with, AltResponseCodes among them, IsAllowCode holds exactly for 200,
\* IsBlockCode exactly for 300..599, no code is both, and the verdict
\* switch treats every other code as unknown
C26_VerdictPartition ==
  modState = "ready" =>
    \A code \in VerdictCodes :
      /\ IsAllowCode(code) <=> code = 200
      /\ IsBlockCode(code) <=> (300 <= code /\ code <= 599)
      /\ ~(IsAllowCode(code) /\ IsBlockCode(code))
      /\ VerdictKind(code) =
           IF code = 200 THEN "allow"
           ELSE IF 300 <= code /\ code <= 599 THEN "block"
           ELSE "unknown"

\* a module built with AltResponseCodes(250), for which 250 is unknown
C26_Witness ==
  /\ modState = "ready"
  /\ AltResponseCodes(250) \in Range(ctor.options)
  /\ VerdictKind(250) = "unknown"
  /\ VerdictKind(403) = "block"

\* whether the option, when applied, returns an error
Fails(o) == o # NilOption /\ ApplyOption(DefaultConfig, o).err # ""

\* the position of the first option of the list that fails, 0 if none
FirstFailure(os) ==
  IF \E i \in DOMAIN os : Fails(os[i])
  THEN CHOOSE i \in DOMAIN os :
         Fails(os[i]) /\ \A j \in 1..(i - 1) : ~Fails(os[j])
  ELSE 0

\* the position of the last option among the first n that sets the field
\* the option of that name sets (that option, or FromModuleConfig, which
\* sets every field), 0 if none
LastOf(os, n, name) ==
  LET Sets(o) == o.opt \in {name, "FromModuleConfig"}
  IN IF \E i \in 1..n : Sets(os[i])
     THEN CHOOSE i \in 1..n :
            Sets(os[i]) /\ \A j \in (i + 1)..n : ~Sets(os[j])
     ELSE 0

\* the value option o gives a field: that of the configuration it clones,
\* or its own argument
Given(o, cloned, own) == IF o.opt = "FromModuleConfig" THEN cloned ELSE own

\* c is the default configuration after the first n options in their
\* order: every field has the value of the last option that sets it
AppliedInOrder(c, os, n) ==
  LET sock == LastOf(os, n, "Socket")
      max == LastOf(os, n, "MaxContentLength")
      unk == LastOf(os, n, "AllowUnknownContentLength")
      insp == LastOf(os, n, "CustomInspector")
      asize == LastOf(os, n, "AnomalySize")
      adur == LastOf(os, n, "AnomalyDuration")
  IN  /\ c.rpcNetwork =
           IF sock = 0 THEN DefaultConfig.rpcNetwork
           ELSE Given(os[sock], os[sock].cfg.rpcNetwork, os[sock].network)
      /\ c.rpcAddress =
           IF sock = 0 THEN DefaultConfig.rpcAddress
           ELSE Given(os[sock], os[sock].cfg.rpcAddress, os[sock].address)
      /\ c.maxContentLength =
           IF max = 0 THEN DefaultMaxContentLength
           ELSE Given(os[max], os[max].cfg.maxContentLength, os[max].size)
      /\ c.allowUnknownContentLength =
           IF unk = 0 THEN FALSE
           ELSE Given(os[unk], os[unk].cfg.allowUnknownContentLength,
                      os[unk].on)
      /\ c.inspector =
           IF insp = 0 THEN "nil"
           ELSE Given(os[insp], os[insp].cfg.inspector, os[insp].insp)
      /\ c.inspInit =
           IF insp = 0 THEN FALSE
           ELSE Given(os[insp], os[insp].cfg.inspInit, os[insp].init)
      /\ c.inspFini =
           IF insp = 0 THEN FALSE
           ELSE Given(os[insp], os[insp].cfg.inspFini, os[insp].fini)
      /\ c.anomalySize =
           IF asize = 0 THEN DefaultAnomalySize
           ELSE Given(os[asize], os[asize].cfg.anomalySize, os[asize].size)
      /\ c.anomalyDuration =
           IF adur = 0 THEN DefaultAnomalyMillis
           ELSE Given(os[adur], os[adur].cfg.anomalyDuration, os[adur].size)

\* C27: once NewModule has returned: if no option fails, the module's
\* configuration is the defaults with all options applied in their order;
\* if one fails, no module is returned, the error is that of the first
\* failing option, only the options before it were applied, and ModuleInit
\* was not called
C27_OptionsInOrderUntilError ==
  (modState # "none" /\ ctor.later = <<>>) =>
    LET os == ctor.options
        k == FirstFailure(os)
    IN  IF k = 0
        THEN /\ modState = "ready"
             /\ ctor.err = ""
             /\ AppliedInOrder(config, os, Len(os))
        ELSE /\ modState = "failed"
             /\ module = NoModule
             /\ ctor.err = ApplyOption(DefaultConfig, os[k]).err
             /\ ctor.err # ""
             /\ AppliedInOrder(config, os, k - 1)
             /\ initCalls = 0

\* NewModule was called with a socket that fails and then with a body
\* limit: it returned the socket's error and no module, and the limit is
\* still the default
C27_Witness ==
  /\ ctor.options = <<Socket("udp", "localhost"), MaxContentLength(MaxBodyOpt)>>
  /\ modState = "failed"
  /\ ctor.err = "network must be \"tcp\" or \"unix\""
  /\ config.maxContentLength = DefaultMaxContentLength
  /\ initCalls = 0

\* the calls of Socket that the claim says succeed
SocketAccepted(network, address) ==
  \/ network = "unix" /\ IsAbs(address)
  \/ network = "tcp" /\ SplitHostPortErr(address) = ""

\* C28: a Socket option applied to a configuration succeeds exactly when
\* the network is unix and the address an absolute path, or the network is
\* tcp and the address of host:port form; then the configuration has the
\* given network and address; when it fails, both are as they were
C28_SocketValidatesBeforeAssigning ==
  \A i \in DOMAIN ctor.later :
    LET call == ctor.later[i] IN
      call.opt.opt = "Socket" =>
        /\ call.err = "" <=> SocketAccepted(call.opt.network, call.opt.address)
        /\ call.err = "" =>
             /\ config.rpcNetwork = call.opt.network
             /\ config.rpcAddress = call.opt.address
        /\ call.err # "" =>
             /\ config.rpcNetwork = call.was.rpcNetwork
             /\ config.rpcAddress = call.was.rpcAddress

\* a configuration set to tcp 0.0.0.0:1234 met Socket("unix", "agent.sock"):
\* the option failed and the configuration is still tcp 0.0.0.0:1234
C28_Witness ==
  /\ ctor.later # <<>>
  /\ ctor.later[1].opt = Socket("unix", "agent.sock")
  /\ ctor.later[1].err = "address must be an absolute path for network=\"unix\""
  /\ ctor.later[1].was.rpcNetwork = "tcp"
  /\ config.rpcNetwork = "tcp"
  /\ config.rpcAddress = "0.0.0.0:1234"

\* C29 as stated: once NewModule has returned the module, no call open to
\* the caller changes a value of its configuration, and the inspector and
\* the hooks the module uses are those of its configuration
C29_ConfigurationImmutable ==
  modState = "ready" =>
    /\ \A i \in DOMAIN ctor.later : config = ctor.later[i].was
    /\ module.inspInit = config.inspInit
    /\ module.inspFini = config.inspFini
    /\ module.inspector =
         IF config.inspector = "nil" THEN "rpc" ELSE config.inspector

\* C30: ModuleInit is called once, by NewModule and by nothing after it;
\* when it returned an error NewModule has still returned the module and no
\* error, and the module takes requests
C30_ModuleInitOnceErrorIgnored ==
  /\ modState = "none" => initCalls = 0
  /\ modState = "ready" => initCalls = 1 /\ ctor.err = ""
  /\ ctor.initErr =>
       /\ modState = "ready"
       /\ module = ModuleOf(config)
       /\ \A r \in Reqs : pc[r] = "idle" => ENABLED ServeHTTPBegin(r)

\* a module whose ModuleInit failed has served a request through
\* PreRequest, the handler and the follow-up call, with one ModuleInit call
C30_Witness ==
  \E r \in Reqs :
    /\ ctor.initErr
    /\ initCalls = 1
    /\ pc[r] = "returned"
    /\ Has(hist[r], "PreRequest")
    /\ Has(hist[r], "Handler")
    /\ Has(hist[r], "HandlerRet")
    /\ bg[r].kind # "none"

\* the call has returned to its caller
RPCReturned == rpc.pc \in {"returned", "idle"}

\* C31 as stated: every call of the RPCInspector opens at most one
\* connection, uses none of an earlier call, and has closed its connection
\* when it returns, with and without error; when connecting fails no
\* connection is left open and the call returns an error
C31_FreshConnectionClosed ==
  /\ rpc.opened <= 1
  /\ ~rpc.reused
  /\ RPCReturned => OpenConns(rpc.conns) = {}
  /\ (rpc.pc = "returned" /\ rpc.cur = 0) => rpc.err # ""

\* C31 (amended): the same, where the connection is the inspector's own:
\* opening and reuse when InitRPCClientFunc is not set, closing when
\* FiniRPCClientFunc is not set
C31_FreshConnectionClosedWithoutHooks ==
  /\ ~rpc.init => rpc.opened <= 1 /\ ~rpc.reused
  /\ ~rpc.fini => (RPCReturned => OpenConns(rpc.conns) = {})
  /\ (rpc.pc = "returned" /\ rpc.cur = 0) =>
       rpc.err # "" /\ rpc.opened = 0

\* an inspector without hooks returns from its second call with an error
\* of the exchange: it has opened two connections and both are closed
C31_Witness ==
  /\ ~rpc.init /\ ~rpc.fini
  /\ rpc.pc = "returned"
  /\ rpc.calls = 1
  /\ rpc.err = "RPC.PostRequest call failed: remote error"
  /\ rpc.conns = <<"closed", "closed">>
  /\ rpc.cur = 2

\* C32 as stated: a call never blocks longer than Timeout; the deadline of
\* its connection is the start of the call plus Timeout, whatever the time
\* the connection took; a call that has used up Timeout returns an error
C32_SingleDeadline ==
  /\ rpc.elapsed <= RPCTimeout
  /\ rpc.cur # 0 => rpc.deadline = RPCTimeout
  /\ (rpc.pc = "returned" /\ rpc.elapsed >= RPCTimeout) => rpc.err # ""

\* C32 (amended): the same for the connections the inspector makes itself,
\* which is when InitRPCClientFunc is not set
C32_SingleDeadlineOwnConnection ==
  ~rpc.init =>
    /\ rpc.elapsed <= RPCTimeout
    /\ rpc.cur # 0 => rpc.deadline = RPCTimeout
    /\ (rpc.pc = "returned" /\ rpc.elapsed >= RPCTimeout) => rpc.err # ""

\* a call whose connection took part of the time ran into the deadline in
\* the exchange: it returns a timeout when Timeout has passed since its start
C32_Witness ==
  /\ ~rpc.init
  /\ rpc.pc = "returned"
  /\ rpc.cur # 0
  /\ rpc.elapsed = RPCTimeout
  /\ rpc.err = "RPC.PreRequest call failed: i/o timeout"

\* C33: when a fini hook is configured, every request that has passed the
\* init gate has its fini hook called in the end, and never twice
C33_FiniEventuallyOnce ==
  /\ \A r \in Reqs : deferFini[r] ~> (fin[r] = "called")
  /\ [](\A r \in Reqs : Count(hist[r], "Fini") <= 1)

\* a blocked request whose PostRequest call returned an error: the fini
\* hook was called after it
C33_Witness ==
  \E r \in Reqs :
    /\ fin[r] = "called"
    /\ Count(hist[r], "Fini") = 1
    /\ out[r].WAFResponse = 406
    /\ bg[r].kind = "Post" /\ bg[r].err

\* C35 as stated: whatever Write and ReadFrom calls were made on the
\* recorder, BytesWritten is the number of body bytes that reached the base
\* writer through it
C35_BytesWrittenIsForwarded ==
  \A r \in Reqs : hw[r] = "rec" => rw[r].size = w[r].size

\* C36 as stated: once the base writer has committed the response header,
\* whichever call of the recorder made it do so, no action is pending and
\* the header that went out is the header with the actions applied
C36_ActionsBeforeCommit ==
  \A r \in Reqs :
    (hw[r] = "rec" /\ w[r].status # 0) =>
      /\ rw[r].actions = <<>>
      /\ w[r].sent = ApplyActions(rw0[r].base.hdr, rw0[r].rec.actions)

\* the handler has called WriteHeader or Write on its recorder
WroteThroughRecorder(r) ==
  \E i \in DOMAIN hist[r] : hist[r][i].op \in {"WriteHeader", "Write"}

\* C37: for every action list the agent can send, with opcodes the module
\* does not know and with actions of fewer arguments than their opcode
\* reads, the first WriteHeader or Write of the handler completes: it does
\* not panic, it reaches the base writer, and the list is cleared
C37_ActionsNeverFailTheWrite ==
  \A r \in Reqs :
    (hw[r] = "rec" /\ WroteThroughRecorder(r)) =>
      /\ pc[r] # "panicked"
      /\ w[r].status # 0
      /\ rw[r].actions = <<>>

\* the part of C37 about opcodes the module does not know: a list of
\* well-formed and unknown actions is applied by a first WriteHeader or
\* Write with the unknown ones skipped
C37_UnknownOpcodesSkipped ==
  \A r \in Reqs :
    (/\ hw[r] = "rec" /\ hist[r] # <<>>
     /\ hist[r][1].op \in {"WriteHeader", "Write"}
     /\ \A i \in DOMAIN rw0[r].rec.actions :
          rw0[r].rec.actions[i].Code = "Unknown"
          \/ Len(rw0[r].rec.actions[i].Args) = 2) =>
      /\ pc[r] # "panicked"
      /\ w[r].status # 0
      /\ rw[r].actions = <<>>
      /\ w[r].sent =
           ApplyActions(rw0[r].base.hdr,
                        SelectSeq(rw0[r].rec.actions,
                                  LAMBDA a : a.Code # "Unknown"))

\* the module answered the request itself, with a block or a redirect
Blocked(r) == Has(hist[r], "Block") \/ Has(hist[r], "Redirect")

\* C34: the follow-up message reports the recorded response: its code is
\* the status passed to the recorder's WriteHeader (200 when the handler
\* never called it), its size is the bytes that went through the recorder,
\* the WAFResponse of a Post is the PreRequest verdict, and the request id
\* of an Update is the id PreRequest returned
C34_FollowupReportsResponse ==
  \A r \in Reqs :
    bg[r].kind # "none" =>
      /\ msg[r].ResponseCode =
           IF Blocked(r) THEN out[r].WAFResponse ELSE LastStatus(calls[r])
      /\ msg[r].ResponseSize =
           IF Blocked(r) THEN w[r].size ELSE BodyBytes(calls[r])
      /\ bg[r].kind = "Post" => msg[r].WAFResponse = out[r].WAFResponse
      /\ bg[r].kind = "Update" =>
           msg[r].RequestID = out[r].RequestID /\ Len(out[r].RequestID) > 0

\* what holds of C34: the same, with the size the bytes of the Write calls
C34_FollowupReportsWrites ==
  \A r \in Reqs :
    bg[r].kind # "none" =>
      /\ msg[r].ResponseCode =
           IF Blocked(r) THEN out[r].WAFResponse ELSE LastStatus(calls[r])
      /\ msg[r].ResponseSize =
           IF Blocked(r) THEN w[r].size ELSE BytesOf(calls[r])
      /\ bg[r].kind = "Post" => msg[r].WAFResponse = out[r].WAFResponse
      /\ bg[r].kind = "Update" =>
           msg[r].RequestID = out[r].RequestID /\ Len(out[r].RequestID) > 0

\* C38: in the gin binding, on a block verdict the remaining handlers of
\* the chain are not executed and the only response is the module's block
\* or redirect response
C38_GinBlockStopsChain ==
  (gin.gate = "inspect" /\ IsBlockCode(gin.code)) =>
    /\ gin.ran = <<>>
    /\ \A i \in DOMAIN gin.resp : gin.resp[i].by = 0

\* the header on the connection up to position i is an array of four, the
\* message type 1 and a sequence id
HeaderGoodBefore(wire, i) ==
  /\ i > 1 => WireAt(wire, 1) = Item("array", 4, "")
  /\ i > 2 => WireAt(wire, 2) = Item("uint", 1, "")
  /\ i > 3 => WireAt(wire, 3).kind = "uint"

\* C39: ReadResponseHeader succeeds exactly on an array of four with
\* message type 1, a sequence id and nil in the error slot; the response
\* then has the received sequence id; a string in the error slot gives the
\* remote error with that string; every other header gives an error; and
\* the end of the stream and a timeout are returned as they are
C39_ResponseHeaderAccepted ==
  codec.pc = "done" =>
    LET wire == codec.wire
    IN /\ codec.err = NilErr <=>
            HeaderGoodBefore(wire, 4) /\ WireAt(wire, 4).kind = "nil"
       /\ (HeaderGoodBefore(wire, 4) /\ WireAt(wire, 4).kind \in {"nil", "str"})
            => codec.seq = WireAt(wire, 3).n
       /\ (HeaderGoodBefore(wire, 4) /\ WireAt(wire, 4).kind = "str") =>
            codec.err = Err("fmt", "remote error: " \o WireAt(wire, 4).s)
       /\ \A i \in 1..HeaderReads :
            (HeaderGoodBefore(wire, i) /\ WireAt(wire, i).kind = "EOF") =>
              codec.err = IoEOF
       /\ \A i \in 1..HeaderReads :
            (HeaderGoodBefore(wire, i) /\ WireAt(wire, i).kind = "timeout") =>
              codec.err = TimeoutErr

\* a header with sequence id 7 and the string of the agent in the error
\* slot was read
C39_Witness ==
  /\ codec.pc = "done"
  /\ codec.wire = <<Item("array", 4, ""), Item("uint", 1, ""),
                    Item("uint", 7, ""), Item("str", 0, "bad request")>>
  /\ codec.seq = 7
  /\ codec.err = Err("fmt", "remote error: bad request")

\* everything the transaction of request r holds
Transaction(r) ==
  <<pc[r], req0[r], req[r], w[r], rw[r], hw[r], ops[r], out[r], finiwg[r],
    deferFini[r], bg[r], msg[r], dur[r], fin[r], hist[r]>>

\* the outcome of request r as its own PreRequest reply and its own
\* recorder determine it, and its finalizer as its own follow-up RPC
\* releases it
OwnOutcome(r) ==
  /\ Blocked(r) => ~out[r].err /\ VerdictKind(out[r].WAFResponse) = "block"
  /\ hw[r] = "rec" => ~out[r].err /\ VerdictKind(out[r].WAFResponse) # "block"
  /\ dur[r] # -1 =>
       bg[r].kind = Followup(out[r].RequestID, rw[r].code, rw[r].size, dur[r],
                             config)
  /\ bg[r].kind # "none" =>
       /\ msg[r].ResponseCode = rw[r].code
       /\ msg[r].ResponseSize = rw[r].size
       /\ msg[r].ResponseMillis = dur[r]
       /\ bg[r].kind = "Post" => msg[r].WAFResponse = out[r].WAFResponse
       /\ bg[r].kind = "Update" => msg[r].RequestID = out[r].RequestID
  /\ fin[r] \in {"woken", "called"} => bg[r].pc \in {"none", "done"}
  /\ (fin[r] = "waiting" /\ bg[r].pc \in {"none", "done"}) => ENABLED FiniWait(r)

\* a step changes the transaction of one request at most
OneTransactionPerStep ==
  \A r1, r2 \in PairReqs :
    (r1 # r2 /\ Transaction(r1)' # Transaction(r1)) =>
      Transaction(r2)' = Transaction(r2)

\* C40: in every interleaving of two requests of one Module, the verdict
\* dispatch, the choice between Update and Post, the follow-up message and
\* the release of the finalizer of each request follow from its own
\* PreRequest reply and recorded response; no step of one request changes
\* anything of the other, and a finalizer neither waits for nor is
\* released by the follow-up RPC of the other request
C40_RequestsIndependent ==
  /\ [](\A r \in PairReqs : OwnOutcome(r))
  /\ [][OneTransactionPerStep]_vars

\* the finalizer of r1 was called after its own Update while the Post of
\* r2 is still being made, r2 having returned and its finalizer waiting
C40_Witness ==
  /\ fin["r1"] = "called" /\ bg["r1"].kind = "Update"
  /\ bg["r2"].kind = "Post" /\ bg["r2"].pc = "calling"
  /\ fin["r2"] = "waiting"
====
